---- MODULE Spec2Model ----
(***************************************************************************)
(* Look-ahead move queue of klippy/chelper (moveq.c, accelgroup.c, the     *)
(* velocity trapezoid builder) as a state machine.                         *)
(*                                                                         *)
(* Number representation.  The C code computes with doubles.  Here         *)
(*  - squared velocities, distances and accelerations are exact rationals *)
(*    <<n, d>> (d > 0, lowest terms);                                      *)
(*  - a velocity v is carried as its square (sqrt is exact that way);      *)
(*  - a time inside a ramp is carried as the ramp position at which the    *)
(*    S-curve is at that time (scurve_get_time inverts a monotone curve);  *)
(*  - the times compared by calc_best_jp are fixed-point numbers with      *)
(*    FP units per second, compared with the tolerance TEPS;               *)
(*  - x > y + EPSILON on exact values of a coarse grid is x > y, and       *)
(*    x + EPSILON > y is x >= y.                                           *)
(* Moves of acceleration order 4 are planned in the regime where max_jerk  *)
(* is too large to bind: calc_max_v2, calc_min_accel_time and              *)
(* calc_effective_accel then reduce to their max_accel branches.           *)
(***************************************************************************)
EXTENDS Integers, Sequences, FiniteSets, TLC

\* ------------------------------------------------------------------ bounds
MaxAdds == 5          \* moves allocated over one run
MaxQueue == 5         \* moves queued at a time

\* --------------------------------------------------------------- rationals
RECURSIVE gcd(_, _)
gcd(a, b) == IF b = 0 THEN a ELSE gcd(b, a % b)

Abs(x) == IF x < 0 THEN -x ELSE x

R(n, d) ==
    LET s == IF d < 0 THEN -1 ELSE 1
        g == gcd(Abs(n), Abs(d))
    IN  <<(s * n) \div g, (s * d) \div g>>

Zero == <<0, 1>>
Q(n) == <<n, 1>>
Plus(x, y) == R(x[1] * y[2] + y[1] * x[2], x[2] * y[2])
Minus(x, y) == R(x[1] * y[2] - y[1] * x[2], x[2] * y[2])
Times(x, y) == R(x[1] * y[1], x[2] * y[2])
Over(x, y) == R(x[1] * y[2], x[2] * y[1])
Half(x) == R(x[1], 2 * x[2])
Twice(x) == R(2 * x[1], x[2])
Lt(x, y) == x[1] * y[2] < y[1] * x[2]
Le(x, y) == x[1] * y[2] <= y[1] * x[2]
Gt(x, y) == Lt(y, x)
Ge(x, y) == Le(y, x)
\* a value computed once and named: In(value)
Let(value, In(_)) == In(value)

MIN(x, y) == IF Lt(y, x) THEN y ELSE x
MAX(x, y) == IF Gt(x, y) THEN x ELSE y

\* ------------------------------------------------------- fixed-point times
FP == 64 * 64                 \* fixed-point units per second
TEPS == FP \div 256           \* EPSILON of calc_best_jp in fixed-point units
TINF == 2000 * 1000 * 1000    \* a division by a zero velocity or acceleration

RECURSIVE isqrt(_, _, _)
isqrt(n, lo, hi) ==
    IF hi - lo <= 1 THEN lo
    ELSE LET m == (lo + hi) \div 2
         IN  IF m * m <= n THEN isqrt(n, m, hi) ELSE isqrt(n, lo, m)

\* sqrt of a rational below 128, in fixed point
FSqrt(q) == isqrt(((q[1] * FP) \div q[2]) * FP, 0, 46341)
\* a rational below 128 in fixed point
FVal(q) == (q[1] * FP) \div q[2]
TAdd(s, t) == IF s = TINF \/ t = TINF THEN TINF ELSE s + t

\* ------------------------------------------------------------ data model
\* A reference to an accel_group: the accel_group, decel_group or
\* fallback_decel of move m, or the group embedded in its junction point.
NullRef == [m |-> 0, g |-> "none"]
Ref(m, g) == [m |-> m, g |-> g]

\* total_accel_t of a ramp from sqrt(v0) to sqrt(c) at acceleration a.
ZeroT == [v0 |-> Zero, c |-> Zero, a |-> Zero]
\* accel_t of a move: the ramp time between the ramp positions lo and hi.
ZeroSlice == [lo |-> Zero, hi |-> Zero]
\* accel_offset_t: the ramp time at position x, or total minus that time.
ZeroOff == [from_end |-> FALSE, x |-> Zero]

\* struct accel_group after memset(0)
ZeroAG ==
    [accel_order |-> 0, max_accel |-> Zero, min_accel |-> Zero,
     max_jerk |-> Zero, min_jerk_limit_time |-> Zero,
     combined_d |-> Zero, accel_d |-> Zero,
     accel_t |-> ZeroSlice, accel_offset_t |-> ZeroOff, total_accel_t |-> ZeroT,
     start_accel_v |-> Zero, effective_accel |-> Zero,
     start_accel |-> NullRef, next_accel |-> NullRef, move |-> 0,
     max_start_v2 |-> Zero, max_end_v2 |-> Zero]

\* struct junction_point after memset(0)
ZeroJP ==
    [accel |-> ZeroAG, move_ag |-> NullRef,
     min_start_time |-> 0, min_end_time |-> 0, max_cruise_end_v2 |-> Zero]

\* struct qmove after qmove_alloc.  id and live stand for the address and
\* the allocation state; junction_max_v2_arg and max_cruise_v2_arg record the
\* caps the move was added with (the fields themselves are lowered by the
\* smoothed pass).
ZeroMove(id) ==
    [id |-> id, live |-> TRUE, cruise_v |-> Zero, move_d |-> Zero,
     junction_max_v2_arg |-> Zero, max_cruise_v2_arg |-> Zero,
     accel_comp |-> 0,
     accel_group |-> ZeroAG, decel_group |-> ZeroAG,
     fallback_decel |-> ZeroAG, default_accel |-> ZeroAG,
     smooth_delta_v2 |-> Zero, max_smoothed_v2 |-> Zero,
     max_cruise_v2 |-> Zero, junction_max_v2 |-> Zero,
     jp |-> ZeroJP]

GetAG(mem, ref) ==
    IF ref.g = "jp" THEN mem[ref.m].jp.accel ELSE mem[ref.m][ref.g]

SetAG(mem, ref, ag) ==
    IF ref.g = "jp"
    THEN [mem EXCEPT ![ref.m].jp.accel = ag]
    ELSE [mem EXCEPT ![ref.m][ref.g] = ag]

\* --------------------------------------------------------- accel groups
fill_accel_group(ag, m, accel_order, accel, jerk, min_jerk_limit_time) ==
    LET min_accel == Over(Times(jerk, min_jerk_limit_time), Q(6))
    IN  [ag EXCEPT !.accel_order = accel_order,
                   !.max_accel = accel,
                   !.max_jerk = jerk,
                   !.min_jerk_limit_time = min_jerk_limit_time,
                   !.min_accel = IF Gt(min_accel, accel) THEN accel ELSE min_accel,
                   !.move = m]

\* a limit_accel that recomputes min_accel from its jerk argument
limit_accel_from_argument(ag, accel_in, jerk) ==
    LET max_accel == MIN(ag.max_accel, accel_in)
        min_accel == Over(Times(jerk, ag.min_jerk_limit_time), Q(6))
    IN  [ag EXCEPT !.max_accel = max_accel,
                   !.max_jerk = MIN(ag.max_jerk, jerk),
                   !.min_accel = MIN(min_accel, max_accel)]

limit_accel(ag, accel_in, jerk) ==
    LET accel == IF Lt(accel_in, Zero) THEN Zero ELSE accel_in
        max_accel == MIN(ag.max_accel, accel)
        max_jerk == MIN(ag.max_jerk, jerk)
        min_accel == Over(Times(max_jerk, ag.min_jerk_limit_time), Q(6))
        m1 == IF Gt(ag.min_accel, min_accel) THEN min_accel ELSE ag.min_accel
        m2 == IF Gt(m1, max_accel) THEN max_accel ELSE m1
    IN  [ag EXCEPT !.max_accel = max_accel, !.max_jerk = max_jerk,
                   !.min_accel = m2]

\* max_start_v is sqrt(max_start_v2): carried by max_start_v2
set_max_start_v2(ag, start_v2) == [ag EXCEPT !.max_start_v2 = start_v2]

\* The square of the root of the jerk cubic of calc_max_v2 and the jerk
\* bound of calc_max_safe_v2: with max_jerk that large both lie above
\* every v2 a move can reach, which JerkV2 stands for.
JerkV2 == Q(100 * 100)

calc_max_v2(mem, ref) ==
    LET ag == GetAG(mem, ref)
        dist == ag.combined_d
        start_v2 == GetAG(mem, ag.start_accel).max_start_v2
        max_accel_v2 == Plus(start_v2, Times(Twice(dist), ag.max_accel))
        min_accel_v2 == Plus(start_v2, Times(Twice(dist), ag.min_accel))
    IN  IF ag.accel_order = 2 THEN max_accel_v2
        ELSE MAX(MIN(JerkV2, max_accel_v2), min_accel_v2)

calc_effective_accel(mem, ref, cruise_v2) ==
    LET ag == GetAG(mem, ref)
        start_v2 == GetAG(mem, ag.start_accel).max_start_v2
        \* sqrt(max_jerk * (cruise_v - start_v) / 6)
        jerk_accel == IF Gt(cruise_v2, start_v2) THEN ag.max_jerk ELSE Zero
    IN  IF ag.accel_order = 2 THEN ag.max_accel
        ELSE MAX(MIN(jerk_accel, ag.max_accel), ag.min_accel)

\* delta_v / max_accel; the jerk term sqrt(6 delta_v / max_jerk) and the
\* min_accel term delta_v / min_accel never bind (min_accel <= max_accel)
calc_min_accel_time(mem, ref, cruise_v2) ==
    LET ag == GetAG(mem, ref)
        start_v2 == GetAG(mem, ag.start_accel).max_start_v2
    IN  IF cruise_v2 = start_v2 THEN ZeroT
        ELSE [v0 |-> start_v2, c |-> cruise_v2, a |-> ag.max_accel]

\* (start_v + cruise_v) / 2 * (cruise_v - start_v) / a
RampDist(t) ==
    IF t.c = t.v0 THEN Zero ELSE Over(Minus(t.c, t.v0), Twice(t.a))

\* the fixed-point value of a ramp time
RampTime(t) ==
    IF t.c = t.v0 THEN 0
    ELSE IF t.a = Zero THEN TINF
    ELSE ((FSqrt(t.c) - FSqrt(t.v0)) * t.a[2]) \div t.a[1]

calc_min_accel_group_time(mem, ref, cruise_v2) ==
    LET ag == GetAG(mem, ref)
        start_v2 == GetAG(mem, ag.start_accel).max_start_v2
        cruise_v == FSqrt(cruise_v2)
        t == calc_min_accel_time(mem, ref, cruise_v2)
        accel_t == RampTime(t)
        cruise_d == IF Ge(start_v2, cruise_v2) THEN ag.combined_d
                    ELSE Minus(ag.combined_d, RampDist(t))
        cruise_t == IF cruise_v = 0 THEN TINF
                    ELSE (FVal(cruise_d) * FP) \div cruise_v
    IN  IF Ge(start_v2, cruise_v2) THEN cruise_t
        ELSE IF accel_t = TINF THEN TINF
        ELSE TAdd(accel_t, cruise_t)

calc_max_safe_v2(mem, ref) ==
    LET ag == GetAG(mem, ref)
        dist == ag.combined_d
        start_v2 == GetAG(mem, ag.start_accel).max_start_v2
        max_v2 == Plus(Times(Twice(ag.max_accel), dist), start_v2)
        v2 == IF Lt(Times(start_v2, Q(9)), JerkV2)
              THEN calc_max_v2(mem, ref) ELSE JerkV2
    IN  IF ag.accel_order > 2 THEN MIN(max_v2, v2) ELSE max_v2

\* ------------------------------------------------------------- combiner
\* A world W is the heap of qmoves (mem), the accel_combiner (ac: the
\* junctions list holds the ids of the moves whose embedded jp is linked)
\* and uaf, set once a list node inside a freed qmove has been accessed,
\* and relinked, set once the jp of a move was zeroed while it was linked.
\* planned and flushed list the moves the forward pass of the running
\* moveq_plan has planned and flushed so far.
Last(s) == s[Len(s)]
Front(s) == SubSeq(s, 1, Len(s) - 1)

ZeroAC == [junctions |-> <<>>, prev_best_jp |-> 0, junct_start_v2 |-> Zero]

Dangling(mem, junctions) ==
    \E i \in 1..Len(junctions) : ~mem[junctions[i]].live

\* the jp embedded in move is linked into ac->junctions
Linked(W, move) ==
    \E i \in 1..Len(W.ac.junctions) : W.ac.junctions[i] = move

\* a reset that leaves the candidates linked
reset_junctions_keep(W, start_v2) ==
    [W EXCEPT !.ac.prev_best_jp = 0, !.ac.junct_start_v2 = start_v2]

reset_junctions(W, start_v2) ==
    [W EXCEPT !.ac = [junctions |-> <<>>, prev_best_jp |-> 0,
                      junct_start_v2 |-> start_v2],
              !.uaf = W.uaf \/ Dangling(W.mem, W.ac.junctions)]

\* prev_accel->next_accel = ag, for the group of the last junction point
link_next_accel(W, agref) ==
    IF W.ac.junctions = <<>> THEN W
    ELSE LET prev_accel == W.mem[Last(W.ac.junctions)].jp.move_ag
         IN  [W EXCEPT !.mem = SetAG(W.mem, prev_accel,
                  [GetAG(W.mem, prev_accel) EXCEPT !.next_accel = agref])]

init_junction_point(W0, move, agref, junction_max_v2) ==
    LET W == link_next_accel(W0, agref)
        ag == GetAG(W.mem, agref)
        prev == W.ac.prev_best_jp
        prev_jp == IF prev = move THEN ZeroJP ELSE W.mem[prev].jp
        prev_end_v2 == MIN(prev_jp.accel.max_end_v2, prev_jp.max_cruise_end_v2)
        start_v2 == IF prev # 0 THEN MIN(junction_max_v2, prev_end_v2)
                    ELSE MIN(junction_max_v2, W.ac.junct_start_v2)
        new_jp == [ZeroJP EXCEPT
                     !.accel = set_max_start_v2(
                         [ag EXCEPT !.start_accel = Ref(move, "jp")], start_v2),
                     !.move_ag = agref,
                     !.min_start_time =
                         IF prev # 0 THEN prev_jp.min_end_time ELSE 0]
    IN  [W EXCEPT !.mem[move].jp = new_jp,
                  !.relinked = W.relinked \/ Linked(W, move)]

\* a test that combines ramps whatever the accel_comp of their moves
check_can_combine_any_comp(W, next_accel) ==
    IF W.ac.junctions = <<>> THEN FALSE
    ELSE LET prev_accel == W.mem[Last(W.ac.junctions)].jp.accel
         IN  /\ next_accel.accel_order # 2
             /\ prev_accel.accel_order = next_accel.accel_order

check_can_combine(W, next_accel) ==
    IF W.ac.junctions = <<>> THEN FALSE
    ELSE LET prev_accel == W.mem[Last(W.ac.junctions)].jp.accel
         IN  /\ next_accel.accel_order # 2
             /\ prev_accel.accel_order = next_accel.accel_order
             /\ W.mem[prev_accel.move].accel_comp
                    = W.mem[next_accel.move].accel_comp

\* x < y + k * EPSILON for exact x, y
LtEps(x, y, k) == IF k > 0 THEN Le(x, y) ELSE Lt(x, y)

\* accel_limit_v2 is limit + k * EPSILON
\* a loop that removes no candidate
drop_decelerating_jps_none(W, limit, k) == W

RECURSIVE drop_decelerating_jps(_, _, _)
drop_decelerating_jps(W, limit, k) ==
    IF W.ac.junctions = <<>> THEN W
    ELSE LET last_jp == W.mem[Last(W.ac.junctions)].jp
         IN  IF LtEps(last_jp.accel.max_start_v2, limit, k + 1) THEN W
             ELSE drop_decelerating_jps(
                      [W EXCEPT !.ac.junctions = Front(W.ac.junctions)],
                      limit, k)

drop_nonaccelerating_jps(W, accel_limit_v2) ==
    drop_decelerating_jps(W, accel_limit_v2, -2)

RECURSIVE limit_accel_jps_from(_, _, _, _)
limit_accel_jps_from(W, i, ag, junction_max_v2) ==
    IF i > Len(W.ac.junctions) THEN W
    ELSE LET id == W.ac.junctions[i]
             jp == W.mem[id].jp
             junction_accel_limit ==
                 Over(Half(Minus(junction_max_v2, jp.accel.max_start_v2)),
                      jp.accel.combined_d)
         IN  limit_accel_jps_from(
                 [W EXCEPT !.mem[id].jp.accel =
                      limit_accel(jp.accel,
                                  MIN(junction_accel_limit, ag.max_accel),
                                  ag.max_jerk)],
                 i + 1, ag, junction_max_v2)

limit_accel_jps(W, ag, junction_max_v2) ==
    limit_accel_jps_from(W, 1, ag, junction_max_v2)

calc_min_accel_end_time(mem, id, cruise_v2) ==
    TAdd(mem[id].jp.min_start_time,
         calc_min_accel_group_time(mem, Ref(id, "jp"), cruise_v2))

\* R is [W, best_jp]
RECURSIVE calc_best_jp_from(_, _, _, _)
calc_best_jp_from(W, i, move, best_jp) ==
    IF i > Len(W.ac.junctions) THEN [W |-> W, best_jp |-> best_jp]
    ELSE LET id == W.ac.junctions[i]
             max_cruise_v2 == W.mem[move].max_cruise_v2
             m1 == [W.mem EXCEPT ![id].jp.accel.combined_d =
                        Plus(@, W.mem[move].move_d)]
             max_end_v2 == calc_max_v2(m1, Ref(id, "jp"))
             m2 == [m1 EXCEPT ![id].jp.accel.max_end_v2 = max_end_v2,
                              ![id].jp.max_cruise_end_v2 = max_cruise_v2]
             min_end_time == calc_min_accel_end_time(
                                 m2, id, MIN(max_end_v2, max_cruise_v2))
             m3 == [m2 EXCEPT ![id].jp.min_end_time = min_end_time]
             better == \/ best_jp = 0
                       \/ m3[best_jp].jp.min_end_time > min_end_time + TEPS
         IN  calc_best_jp_from([W EXCEPT !.mem = m3], i + 1, move,
                               IF better THEN id ELSE best_jp)

calc_best_jp(W, move) == calc_best_jp_from(W, 1, move, 0)

process_next_accel(W0, move, agref, junction_max_v2) ==
    Let(init_junction_point(W0, move, agref, junction_max_v2), LAMBDA W1 :
    LET start_v2 == W1.mem[move].jp.accel.max_start_v2
        ag0 == GetAG(W1.mem, agref)
        W2 == IF ~check_can_combine(W1, ag0)
              THEN reset_junctions(W1, start_v2) ELSE W1
        W3 == drop_nonaccelerating_jps(W2, MIN(start_v2, junction_max_v2))
        W4 == limit_accel_jps(W3, ag0, junction_max_v2)
        W5 == [W4 EXCEPT !.ac.junctions = Append(@, move)]
    IN  Let(calc_best_jp(W5, move), LAMBDA r :
        LET best == r.W.mem[r.best_jp].jp
            ag1 == limit_accel(GetAG(r.W.mem, agref),
                               best.accel.max_accel, best.accel.max_jerk)
            ag2 == [set_max_start_v2(ag1, start_v2) EXCEPT
                       !.max_end_v2 = best.accel.max_end_v2,
                       !.combined_d = best.accel.combined_d,
                       !.start_accel = best.move_ag]
        IN  [r.W EXCEPT !.ac.prev_best_jp = r.best_jp,
                        !.mem = SetAG(r.W.mem, agref, ag2)]))

maybe_add_new_fallback_decel_jp(W, move, next_junction_max_v2) ==
    LET start_v2 == W.mem[move].decel_group.max_start_v2
        new_jp == [ZeroJP EXCEPT
                     !.accel = set_max_start_v2(
                         [W.mem[move].default_accel EXCEPT
                              !.start_accel = Ref(move, "jp")],
                         next_junction_max_v2),
                     !.move_ag = Ref(move, "decel_group")]
    IN  IF Gt(next_junction_max_v2, start_v2) THEN W
        ELSE IF /\ W.ac.junctions # <<>>
                /\ Le(next_junction_max_v2,
                      W.mem[Last(W.ac.junctions)].jp.accel.max_start_v2)
        THEN W
        ELSE [W EXCEPT !.mem[move].jp = new_jp,
                       !.relinked = W.relinked \/ Linked(W, move),
                       !.ac.junctions = Append(@, move)]

\* R is [W, found]
RECURSIVE find_fallback_decel_from(_, _, _, _)
find_fallback_decel_from(W, i, move, max_end_v2) ==
    IF i = 0
    THEN [W |-> [W EXCEPT !.mem[move].fallback_decel = ZeroAG],
          found |-> FALSE]
    ELSE LET id == W.ac.junctions[i]
             m1 == [W.mem EXCEPT ![id].jp.accel.combined_d =
                        Plus(@, W.mem[move].move_d)]
             jp == m1[id].jp
             safe_end_v2 == calc_max_safe_v2(m1, Ref(id, "jp"))
             fallback_decel ==
                 [set_max_start_v2(jp.accel, jp.accel.max_start_v2) EXCEPT
                      !.max_end_v2 = safe_end_v2,
                      !.start_accel = jp.move_ag,
                      !.move = move]
         IN  IF Le(max_end_v2, safe_end_v2)
             THEN [W |-> [W EXCEPT !.mem =
                       [m1 EXCEPT ![move].fallback_decel = fallback_decel]],
                   found |-> TRUE]
             ELSE find_fallback_decel_from([W EXCEPT !.mem = m1],
                                           i - 1, move, max_end_v2)

find_fallback_decel(W, move, max_end_v2) ==
    find_fallback_decel_from(W, Len(W.ac.junctions), move, max_end_v2)

reset_combiner(W) == reset_junctions(W, Zero)

process_fallback_decel(W0, move, next_junction_max_v2) ==
    LET W1 == IF ~check_can_combine(W0, W0.mem[move].default_accel)
              THEN reset_combiner(W0) ELSE W0
        decel == W1.mem[move].decel_group
        start_v2 == decel.max_start_v2
        max_end_v2 == MIN(decel.max_end_v2, W1.mem[move].junction_max_v2)
        W2 == IF Gt(next_junction_max_v2, Zero)
              THEN drop_decelerating_jps(
                       W1, MIN(start_v2, next_junction_max_v2), 0)
              ELSE reset_junctions(W1, Zero)
        W3 == limit_accel_jps(W2, W2.mem[move].default_accel,
                              next_junction_max_v2)
        W4 == maybe_add_new_fallback_decel_jp(W3, move, next_junction_max_v2)
    IN  find_fallback_decel(W4, move, max_end_v2)

\* ---------------------------------------------------- trapezoid builder
\* W also holds the queue mq->moves (q), the builder (vt), mq->prev_end_v2,
\* and the flags segv (a null or stray pointer was dereferenced) and
\* hang (a pointer walk did not end).
MaxWalk == MaxQueue + 2

IndexOf(list, m) == CHOOSE i \in 1..Len(list) : list[i] = m
InList(list, m) == \E i \in 1..Len(list) : list[i] = m
\* list_next_entry / list_prev_entry; 0 is the list root
NextIn(list, m) ==
    IF IndexOf(list, m) = Len(list) THEN 0 ELSE list[IndexOf(list, m) + 1]
PrevIn(list, m) ==
    IF IndexOf(list, m) = 1 THEN 0 ELSE list[IndexOf(list, m) - 1]
Remove(list, m) == SelectSeq(list, LAMBDA x : x # m)
\* list_add_head: the move is put in front of the queue instead
list_add_head(list, m) == <<m>> \o list
list_add_tail(list, m) == Append(list, m)
\* list_add_before of every move of ins, in order, before next_pos
InsertBefore(list, ins, next_pos) ==
    IF next_pos = 0 THEN list \o ins
    ELSE LET i == IndexOf(list, next_pos)
         IN  SubSeq(list, 1, i - 1) \o ins \o SubSeq(list, i, Len(list))

ZeroVT == [trapezoid |-> <<>>, accel_head |-> 0, decel_head |-> 0]

\* the largest v2 with accel_d + decel_d <= total_d, where each distance
\* is calc_min_accel_dist: 0 up to the start v2, (v2 - start) / (2 a) above
SumLimit(sa, aa, sd, ad, total_d) ==
    LET lo == MIN(sa, sd)
        hi == MAX(sa, sd)
        ap == IF Le(sa, sd) THEN aa ELSE ad
        aq == IF Le(sa, sd) THEN ad ELSE aa
        x1 == Plus(lo, Times(Twice(ap), total_d))
    IN  IF Le(x1, hi) THEN x1
        ELSE IF aq = Zero THEN hi
        ELSE Over(Plus(total_d, Plus(Over(lo, Twice(ap)), Over(hi, Twice(aq)))),
                  Plus(Over(Q(1), Twice(ap)), Over(Q(1), Twice(aq))))

\* a peak that ignores the length of the move: the higher of the two
\* velocities the ramps could reach over their combined distances
calc_move_peak_v2_unbounded(mem, m) ==
    MAX(mem[m].accel_group.max_end_v2, mem[m].decel_group.max_end_v2)

\* the limit of the bisection over guess_v, squared
calc_move_peak_v2(mem, m) ==
    LET accel == mem[m].accel_group
        decel == mem[m].decel_group
        effective_accel == MIN(accel.max_accel, decel.max_accel)
        sa == GetAG(mem, accel.start_accel).max_start_v2
        sd == GetAG(mem, decel.start_accel).max_start_v2
        total_d == Minus(Plus(accel.combined_d, decel.combined_d),
                         mem[m].move_d)
        high_v2 == MAX(accel.max_end_v2, decel.max_end_v2)
        xa == Plus(sa, Times(Twice(accel.max_accel), accel.combined_d))
        xd == Plus(sd, Times(Twice(decel.max_accel), decel.combined_d))
        xs == SumLimit(sa, accel.max_accel, sd, decel.max_accel, total_d)
    IN  IF accel.accel_order = 2
        THEN Half(Plus(Plus(accel.max_start_v2, decel.max_start_v2),
                       Times(Twice(mem[m].move_d), effective_accel)))
        ELSE MIN(MIN(high_v2, xs), MIN(xa, xd))

calc_trap_peak_v2(mem, accel_head, decel_head) ==
    IF decel_head # accel_head
    THEN LET peak_v2 == MIN(mem[decel_head].decel_group.max_end_v2,
                            mem[decel_head].junction_max_v2)
         IN  IF accel_head # 0
             THEN MIN(peak_v2, mem[accel_head].accel_group.max_end_v2)
             ELSE peak_v2
    ELSE MIN(calc_move_peak_v2(mem, decel_head),
             mem[decel_head].max_cruise_v2)

RECURSIVE set_accel_walk(_, _, _, _, _, _, _, _, _, _)
set_accel_walk(W, a, combined, cruise_v2, from_start, T, eff, sv,
               remaining_accel_d, n) ==
    IF a = NullRef THEN [W EXCEPT !.segv = TRUE]
    ELSE IF n = 0 THEN [W EXCEPT !.hang = TRUE]
    ELSE LET ag == GetAG(W.mem, a)
             combined_accel_d == RampDist(T)
             move_d == W.mem[ag.move].move_d
             accel_d == MIN(move_d, remaining_accel_d)
             pos == Minus(combined_accel_d, remaining_accel_d)
             next_pos == Plus(accel_d, pos)
             ag1 == [ag EXCEPT
                       !.effective_accel = eff,
                       !.total_accel_t = T,
                       !.accel_d = accel_d,
                       !.start_accel_v = sv,
                       !.accel_offset_t =
                           IF from_start
                           THEN [from_end |-> FALSE, x |-> pos]
                           ELSE [from_end |-> TRUE, x |-> next_pos],
                       !.accel_t = [lo |-> pos, hi |-> next_pos]]
             busy == Gt(remaining_accel_d, Zero)
             m1 == [W.mem EXCEPT ![ag.move].cruise_v = cruise_v2]
             m2 == IF busy THEN SetAG(m1, a, ag1) ELSE m1
             W1 == [W EXCEPT !.mem = m2]
         IN  IF a = combined THEN W1
             ELSE set_accel_walk(W1, ag.next_accel, combined, cruise_v2,
                      from_start, T, eff, sv,
                      IF busy THEN Minus(remaining_accel_d, move_d)
                      ELSE remaining_accel_d,
                      n - 1)

set_accel(W, combined, cruise_v2, time_offset_from_start) ==
    LET sref == GetAG(W.mem, combined).start_accel
        m1 == IF Gt(GetAG(W.mem, sref).max_start_v2, cruise_v2)
              THEN SetAG(W.mem, sref,
                         set_max_start_v2(GetAG(W.mem, sref), cruise_v2))
              ELSE W.mem
        T == calc_min_accel_time(m1, combined, cruise_v2)
        eff == calc_effective_accel(m1, combined, cruise_v2)
    IN  IF sref = NullRef THEN [W EXCEPT !.segv = TRUE]
        ELSE set_accel_walk([W EXCEPT !.mem = m1], sref, combined, cruise_v2,
                            time_offset_from_start, T, eff,
                            GetAG(m1, sref).max_start_v2, RampDist(T), MaxWalk)

\* g is "decel_group" walking forward, "accel_group" walking backward
RECURSIVE set_trap_walk(_, _, _, _, _)
set_trap_walk(W, m, g, cruise_v2, n) ==
    IF m = 0 \/ W.segv \/ W.hang THEN W
    ELSE IF n = 0 THEN [W EXCEPT !.hang = TRUE]
    ELSE Let(set_accel(W, Ref(m, g), cruise_v2, g = "accel_group"),
             LAMBDA W1 :
         LET m1 == W1.mem[m][g].start_accel.m
         IN  IF W1.segv \/ W1.hang THEN W1
             ELSE IF ~InList(W1.vt.trapezoid, m1)
             THEN [W1 EXCEPT !.segv = TRUE]
             ELSE set_trap_walk(W1,
                      IF g = "decel_group" THEN NextIn(W1.vt.trapezoid, m1)
                      ELSE PrevIn(W1.vt.trapezoid, m1),
                      g, MIN(cruise_v2, W1.mem[m1][g].max_start_v2), n - 1))

set_trap_decel(W, decel_head, cruise_v2) ==
    set_trap_walk(W, decel_head, "decel_group", cruise_v2, MaxWalk)

set_trap_accel(W, accel_head, cruise_v2) ==
    set_trap_walk(W, accel_head, "accel_group", cruise_v2, MaxWalk)

\* W.cleared lists the vtrap_clear calls of the running moveq_plan: the
\* builder and the queue before the call, next_pos, and both after it
note_clear(W, W1, next_pos) ==
    [W1 EXCEPT !.cleared = Append(@, [vt |-> W.vt, q |-> W.q,
                                      next_pos |-> next_pos,
                                      vt_after |-> W1.vt, q_after |-> W1.q])]

\* list_add_head instead of list_add_before: the moves come back in
\* reverse order
RECURSIVE Reverse(_)
Reverse(list) ==
    IF list = <<>> THEN <<>> ELSE Append(Reverse(Tail(list)), Head(list))

vtrap_clear_reversed(W, next_pos) ==
    note_clear(W, [W EXCEPT !.q = InsertBefore(W.q, Reverse(W.vt.trapezoid),
                                               next_pos),
                            !.vt = ZeroVT], next_pos)

vtrap_clear(W, next_pos) ==
    note_clear(W, [W EXCEPT !.q = InsertBefore(W.q, W.vt.trapezoid, next_pos),
                            !.vt = ZeroVT], next_pos)

\* The trapezoid is planned; once a trapezoid is flushed with commit, it
\* and every trapezoid planned before it in this pass are flushed.
note_flush(W, commit) ==
    [W EXCEPT !.planned = @ \o W.vt.trapezoid,
              !.flushed = IF commit THEN W.planned \o W.vt.trapezoid ELSE @]

\* a flush that reports the queue as ending at rest
vtrap_end_v2_at_rest(W) == Zero

\* *end_v2 = the v2 the flushed trapezoid ends at
vtrap_end_v2(W) == W.mem[Last(W.vt.trapezoid)].decel_group.max_start_v2

\* commit: end_v2 is &mq->prev_end_v2 rather than NULL
vtrap_flush(W, next_pos, commit) ==
    IF W.vt.decel_head = 0 THEN [W EXCEPT !.segv = TRUE]
    ELSE Let(calc_trap_peak_v2(W.mem, W.vt.accel_head, W.vt.decel_head),
             LAMBDA peak_cruise_v2 :
         Let(set_trap_decel(W, W.vt.decel_head, peak_cruise_v2), LAMBDA W1 :
         Let(IF W.vt.accel_head # 0
             THEN set_trap_accel(W1, W.vt.accel_head, peak_cruise_v2)
             ELSE W1, LAMBDA W2 :
         IF W2.segv \/ W2.hang THEN W2
         ELSE vtrap_clear(
                  note_flush(
                      IF commit
                      THEN [W2 EXCEPT !.prev_end_v2 = vtrap_end_v2(W2)]
                      ELSE W2, commit), next_pos))))

vtrap_add_as_accel(W, move) ==
    [W EXCEPT !.q = Remove(W.q, move),
              !.vt.trapezoid = Append(@, move),
              !.vt.accel_head = move]

vtrap_add_as_decel(W, move) ==
    LET W1 == IF W.vt.decel_head = 0
              THEN [W EXCEPT !.vt.decel_head = move] ELSE W
    IN  IF W.vt.accel_head # move
        THEN [W1 EXCEPT !.q = Remove(W.q, move),
                        !.vt.trapezoid = Append(@, move)]
        ELSE W1

\* ------------------------------------------------------------ the passes
ERROR_RET == -1

\* accel_group, decel_group and jp are set by the planner only
MinCaps(mem, ids, peak_cruise_v2) ==
    [id \in DOMAIN mem |->
        IF id \in ids
        THEN [mem[id] EXCEPT
                 !.max_cruise_v2 = MIN(@, peak_cruise_v2),
                 !.junction_max_v2 = MIN(@, peak_cruise_v2)]
        ELSE mem[id]]

Range(s) == {s[i] : i \in 1..Len(s)}

\* One iteration of the loop of backward_smoothed_pass over move order[i].
\* S is [W, delayed, next_smoothed_v2, peak_cruise_v2, update_flush_limit,
\*       flush_limit, ret, stop].
smoothed_step(S, move, lazy, smoothed_pass_limit) ==
    LET mv == S.W.mem[move]
        reachable_smoothed_v2 == Plus(S.next_smoothed_v2, mv.smooth_delta_v2)
        smoothed_v2 == MIN(mv.max_smoothed_v2, reachable_smoothed_v2)
        can_decel == \/ Gt(Plus(smoothed_v2, mv.smooth_delta_v2),
                           S.next_smoothed_v2)
                     \/ S.delayed # <<>>
        new_limit == can_decel /\ S.update_flush_limit
                               /\ S.peak_cruise_v2 # Zero
        flush_limit == IF new_limit THEN move ELSE S.flush_limit
        update_flush_limit == IF new_limit THEN FALSE
                              ELSE S.update_flush_limit
        peak_cruise_v2 ==
            IF can_decel
            THEN MIN(mv.max_cruise_v2,
                     Half(Plus(smoothed_v2, reachable_smoothed_v2)))
            ELSE S.peak_cruise_v2
        limit_caps == ~update_flush_limit /\ move # flush_limit
        m == NextIn(S.W.q, move)
        mem1 == IF limit_caps
                THEN MinCaps(S.W.mem, {move} \cup Range(S.delayed),
                             peak_cruise_v2)
                ELSE S.W.mem
        mem2 == IF limit_caps /\ m # 0
                THEN [mem1 EXCEPT ![m].junction_max_v2 =
                          MIN(@, peak_cruise_v2)]
                ELSE mem1
        S1 == [S EXCEPT !.flush_limit = flush_limit,
                        !.update_flush_limit = update_flush_limit,
                        !.peak_cruise_v2 = peak_cruise_v2]
    IN  IF Lt(smoothed_v2, reachable_smoothed_v2)
        THEN IF limit_caps /\ lazy /\ m = 0
             THEN [S1 EXCEPT !.W.mem = mem1, !.ret = ERROR_RET, !.stop = TRUE]
             ELSE [S1 EXCEPT
                     !.W.mem = mem2,
                     !.W.q = InsertBefore(S.W.q, S.delayed, m),
                     !.delayed = <<>>,
                     !.next_smoothed_v2 = smoothed_v2,
                     !.stop = (smoothed_pass_limit = move)]
        ELSE [S EXCEPT
                !.W.q = Remove(S.W.q, move),
                !.delayed = <<move>> \o S.delayed,
                !.next_smoothed_v2 = smoothed_v2,
                !.stop = (smoothed_pass_limit = move)]

RECURSIVE smoothed_loop(_, _, _, _, _)
smoothed_loop(S, order, i, lazy, smoothed_pass_limit) ==
    IF i = 0 \/ S.stop THEN S
    ELSE smoothed_loop(smoothed_step(S, order[i], lazy, smoothed_pass_limit),
                       order, i - 1, lazy, smoothed_pass_limit)

\* the locals of backward_smoothed_pass when its loop is entered
smoothed_start(W, lazy) ==
    [W |-> reset_junctions(W, Zero), delayed |-> <<>>,
     next_smoothed_v2 |-> Zero, peak_cruise_v2 |-> Zero,
     update_flush_limit |-> lazy, flush_limit |-> 0,
     ret |-> 0, stop |-> FALSE]

\* R is [W, ret, flush_limit, smoothed_pass_limit]
backward_smoothed_pass(W, lazy, smoothed_pass_limit) ==
    Let(smoothed_loop(smoothed_start(W, lazy),
                      W.q, Len(W.q), lazy, smoothed_pass_limit), LAMBDA S :
        IF S.ret # 0
        THEN [W |-> S.W, ret |-> S.ret, flush_limit |-> 0,
              smoothed_pass_limit |-> smoothed_pass_limit]
        ELSE IF S.delayed # <<>>
        THEN [W |-> S.W, ret |-> ERROR_RET, flush_limit |-> 0,
              smoothed_pass_limit |-> smoothed_pass_limit]
        ELSE [W |-> S.W, ret |-> 0,
              flush_limit |-> IF S.update_flush_limit THEN 0
                              ELSE S.flush_limit,
              smoothed_pass_limit |-> S.flush_limit])

\* the move the backward walks start from: the last move, or the one
\* before end; 0 is the list root
WalkStart(q, end) ==
    IF end = 0 THEN (IF q = <<>> THEN 0 ELSE Last(q)) ELSE PrevIn(q, end)

RECURSIVE backward_pass_from(_, _, _)
backward_pass_from(W, move, junction_max_v2) ==
    IF move = 0 THEN W
    ELSE Let(process_next_accel(
                 [W EXCEPT
                    !.mem[move].decel_group = W.mem[move].default_accel,
                    !.mem[move].accel_group = W.mem[move].default_accel],
                 move, Ref(move, "decel_group"), junction_max_v2),
             LAMBDA W2 :
         backward_pass_from(W2, PrevIn(W2.q, move),
                            W2.mem[move].junction_max_v2))

backward_pass(W, end) ==
    backward_pass_from(reset_junctions(W, Zero), WalkStart(W.q, end), Zero)

\* 1e100: above every v2 of the queue
UnknownV2 == Q(1000 * 1000)

\* R is [W, flush_limit]
RECURSIVE safe_flush_limit_from(_, _, _, _, _)
safe_flush_limit_from(W, move, start, junction_max_v2, flush_limit) ==
    IF move = 0 \/ move = start
    THEN [W |-> W, flush_limit |-> IF flush_limit # 0 THEN flush_limit
                                   ELSE start]
    ELSE Let(process_fallback_decel(W, move, junction_max_v2), LAMBDA r :
         safe_flush_limit_from(
             r.W, PrevIn(r.W.q, move), start,
             r.W.mem[move].junction_max_v2,
             IF r.found /\ flush_limit = 0 THEN NextIn(r.W.q, move)
             ELSE flush_limit))

compute_safe_flush_limit(W, lazy, end) ==
    IF ~lazy THEN [W |-> W, flush_limit |-> end]
    ELSE safe_flush_limit_from(reset_junctions(W, UnknownV2),
                               WalkStart(W.q, end), W.q[1], UnknownV2, 0)

\* The loop that chains moves as decel until decel->start_accel->move.
\* R is [W, move, next_move]; move = 0 is the list root.
RECURSIVE decel_chain(_, _, _, _, _)
decel_chain(W, move, next_move, end, target) ==
    IF move = end /\ end # 0
    THEN [W |-> W, move |-> move, next_move |-> next_move]
    ELSE IF move = 0
    THEN [W |-> [W EXCEPT !.segv = TRUE], move |-> 0, next_move |-> 0]
    ELSE LET W1 == vtrap_add_as_decel(W, move)
         IN  IF move = target
             THEN [W |-> W1, move |-> move, next_move |-> next_move]
             ELSE decel_chain(W1, next_move,
                              IF next_move = 0 THEN 0
                              ELSE NextIn(W.q, next_move),
                              end, target)

\* F is [W, move, prev_cruise_v2, last_flushed_move]
RECURSIVE forward_loop(_, _, _)
forward_loop(F, end, lazy) ==
    IF F.move = 0 \/ F.move = end \/ F.W.segv \/ F.W.hang THEN F
    ELSE
    LET move == F.move
        next_move == NextIn(F.W.q, move)
    IN
    Let(process_next_accel(F.W, move, Ref(move, "accel_group"),
            MIN(F.W.mem[move].junction_max_v2, F.prev_cruise_v2)),
        LAMBDA W1 :
    LET can_accelerate == Gt(W1.mem[move].decel_group.max_end_v2,
                             W1.mem[move].accel_group.max_start_v2)
        do_flush == can_accelerate /\ W1.vt.decel_head # 0
        commit == W1.mem[move].fallback_decel.move # 0 \/ ~lazy
        last_flushed_move == IF do_flush /\ commit
                             THEN Last(W1.vt.trapezoid)
                             ELSE F.last_flushed_move
    IN
    Let(IF do_flush THEN vtrap_flush(W1, move, commit) ELSE W1, LAMBDA W2 :
    Let(IF can_accelerate THEN vtrap_add_as_accel(W2, move) ELSE W2,
        LAMBDA W3 :
    LET must_decelerate == Ge(W3.mem[move].accel_group.max_end_v2,
                              W3.mem[move].decel_group.max_start_v2)
        start_accel == W3.mem[move].decel_group.start_accel
    IN  IF W2.segv \/ W2.hang THEN [F EXCEPT !.W = W2]
        ELSE IF must_decelerate \/ ~can_accelerate
        THEN IF start_accel = NullRef
             THEN [F EXCEPT !.W = [W3 EXCEPT !.segv = TRUE]]
             ELSE Let(decel_chain(W3, move, next_move, end,
                                  GetAG(W3.mem, start_accel).move),
                      LAMBDA r :
                  IF r.W.segv \/ (r.move = end /\ end # 0)
                  THEN [F EXCEPT !.W = r.W, !.move = r.move,
                                 !.last_flushed_move = last_flushed_move]
                  ELSE forward_loop(
                           [W |-> reset_junctions(r.W,
                                      GetAG(r.W.mem, start_accel).max_start_v2),
                            move |-> r.next_move,
                            prev_cruise_v2 |-> r.W.mem[r.move].max_cruise_v2,
                            last_flushed_move |-> last_flushed_move],
                           end, lazy))
        ELSE forward_loop(
                 [W |-> W3, move |-> next_move,
                  prev_cruise_v2 |-> W3.mem[move].max_cruise_v2,
                  last_flushed_move |-> last_flushed_move],
                 end, lazy))))

\* the head move cannot reach the committed v2: fall back to the
\* deceleration recorded by compute_safe_flush_limit
forward_fallback(W, move) ==
    LET start_v2 == W.prev_end_v2
        fallback_decel == W.mem[move].fallback_decel
        decel_start_v2 ==
            MIN(fallback_decel.max_start_v2,
                GetAG(W.mem, fallback_decel.start_accel).max_start_v2)
        m1 == [W.mem EXCEPT ![move].decel_group =
                   [fallback_decel EXCEPT !.max_end_v2 = start_v2]]
        sref == fallback_decel.start_accel
    IN  IF fallback_decel.start_accel = NullRef
        THEN [W EXCEPT !.segv = TRUE]
        ELSE [W EXCEPT !.mem = SetAG(m1, sref,
                  set_max_start_v2(GetAG(m1, sref),
                                   MIN(start_v2, decel_start_v2)))]

\* R is [W, last_flushed_move]
forward_pass(W, end, lazy) ==
    LET move == W.q[1]
        start_v2 == W.prev_end_v2
    IN
    IF move = end THEN [W |-> W, last_flushed_move |-> 0]
    ELSE
    Let(IF Lt(W.mem[move].decel_group.max_end_v2, start_v2)
        THEN forward_fallback(W, move) ELSE W, LAMBDA W1 :
    Let(forward_loop([W |-> reset_junctions([W1 EXCEPT !.vt = ZeroVT],
                                            start_v2),
                      move |-> move, prev_cruise_v2 |-> start_v2,
                      last_flushed_move |-> 0], end, lazy), LAMBDA F :
        IF W1.segv \/ F.W.segv \/ F.W.hang
        THEN [W |-> [F.W EXCEPT !.segv = W1.segv \/ F.W.segv],
              last_flushed_move |-> 0]
        ELSE IF ~lazy
        THEN IF F.W.vt.decel_head # 0 \/ F.W.vt.accel_head # 0
             THEN [W |-> vtrap_flush(F.W, end, TRUE),
                   last_flushed_move |-> Last(F.W.vt.trapezoid)]
             ELSE [W |-> F.W, last_flushed_move |-> F.last_flushed_move]
        ELSE [W |-> vtrap_clear(F.W, end),
              last_flushed_move |-> F.last_flushed_move]))

\* a count of every queued move, flushed or not
flush_count_all(q, i, last_flushed_move) == Len(q)

\* a count that is incremented after the comparison, not before it
flush_count_late(q, i, last_flushed_move) ==
    IF InList(q, last_flushed_move) THEN IndexOf(q, last_flushed_move) - 1
    ELSE Len(q)

RECURSIVE flush_count(_, _, _)
flush_count(q, i, last_flushed_move) ==
    IF i > Len(q) THEN Len(q)
    ELSE IF q[i] = last_flushed_move THEN i
    ELSE flush_count(q, i + 1, last_flushed_move)

\* R is [W, ret, smoothed_pass_limit]
\* a plan that answers 0 when the smoothed pass reported an error
moveq_plan_silent(W, lazy, smoothed_pass_limit) ==
    IF W.q = <<>>
    THEN [W |-> W, ret |-> 0, smoothed_pass_limit |-> smoothed_pass_limit]
    ELSE
    Let(backward_smoothed_pass(W, lazy, smoothed_pass_limit), LAMBDA b :
        IF b.ret # 0 \/ (lazy /\ b.flush_limit = 0)
        THEN [W |-> b.W, ret |-> 0,
              smoothed_pass_limit |-> b.smoothed_pass_limit]
        ELSE
        Let(compute_safe_flush_limit(backward_pass(b.W, b.flush_limit),
                                     lazy, b.flush_limit), LAMBDA s :
        Let(forward_pass(s.W, s.flush_limit, lazy), LAMBDA f :
            [W |-> f.W,
             ret |-> IF f.last_flushed_move = 0 THEN 0
                     ELSE flush_count(f.W.q, 1, f.last_flushed_move),
             smoothed_pass_limit |-> b.smoothed_pass_limit])))

moveq_plan(W, lazy, smoothed_pass_limit) ==
    IF W.q = <<>>
    THEN [W |-> W, ret |-> 0, smoothed_pass_limit |-> smoothed_pass_limit]
    ELSE
    Let(backward_smoothed_pass(W, lazy, smoothed_pass_limit), LAMBDA b :
        IF b.ret # 0 \/ (lazy /\ b.flush_limit = 0)
        THEN [W |-> b.W, ret |-> b.ret,
              smoothed_pass_limit |-> b.smoothed_pass_limit]
        ELSE
        Let(compute_safe_flush_limit(backward_pass(b.W, b.flush_limit),
                                     lazy, b.flush_limit), LAMBDA s :
        Let(forward_pass(s.W, s.flush_limit, lazy), LAMBDA f :
            [W |-> f.W,
             ret |-> IF f.last_flushed_move = 0 THEN 0
                     ELSE flush_count(f.W.q, 1, f.last_flushed_move),
             smoothed_pass_limit |-> b.smoothed_pass_limit])))

\* -------------------------------------------------------------- getmove
\* A velocity is its square ("v2"), the velocity of an order 4 or 6 ramp T
\* at a ramp position strictly inside it ("curve"), or that of a
\* deceleration curve that starts from a cruise_v other than the ramp's ("odd").
V2(v2) == [k |-> "v2", v2 |-> v2]

\* velocity of the acceleration curve (start_accel_v, effective_accel,
\* total_accel_t) at the time it reaches position x
CurveV(accel_order, T, start_accel_v, x) ==
    IF T = ZeroT
    THEN V2(IF accel_order = 4 \/ accel_order = 6 THEN Zero ELSE start_accel_v)
    ELSE IF Le(x, Zero) THEN V2(T.v0)
    ELSE IF Ge(x, RampDist(T)) THEN V2(T.c)
    ELSE IF accel_order = 4 \/ accel_order = 6
    THEN [k |-> "curve", T |-> T, x |-> x]
    ELSE V2(Plus(T.v0, Times(Twice(T.a), x)))

\* velocity of the deceleration curve (cruise_v, -effective_decel,
\* total_decel_t), the mirror image of the acceleration curve
DecelV(accel_order, T, start_accel_v, cruise_v, x) ==
    IF T = ZeroT THEN V2(IF accel_order = 4 \/ accel_order = 6 THEN Zero
                         ELSE cruise_v)
    ELSE IF cruise_v = T.c THEN CurveV(accel_order, T, start_accel_v, x)
    ELSE [k |-> "odd", cruise_v |-> cruise_v, T |-> T, x |-> x]

\* accel_t > EPSILON
SliceTime(T, slice) == T # ZeroT /\ Gt(slice.hi, slice.lo)

\* 1 / EPSILON
EPSILON_DEN == 1000 * 1000 * 1000

\* fabs(d / sqrt(v2)) <= EPSILON.  A distance with a denominator below
\* 10^6 is a value of the planner's grid: it is that small only when it
\* is 0 (every v2 is below 10^6).
Tiny(d, v2) ==
    IF d[1] = 0 THEN TRUE
    ELSE IF d[2] < 1000 * 1000 THEN FALSE
    ELSE LET x == R(Abs(d[1]) * EPSILON_DEN, d[2])
         IN  Le(Times(x, x), v2)

\* cruise_d / cruise_v: "pos" is > EPSILON, "neg" is < -EPSILON, "zero" is
\* in between; a division by a cruise_v of 0 gives an infinity or a NaN
CruiseSign(cruise_t) ==
    IF cruise_t.v = Zero
    THEN (IF Gt(cruise_t.d, Zero) THEN "pos"
          ELSE IF Lt(cruise_t.d, Zero) THEN "neg" ELSE "nan")
    ELSE (IF Tiny(cruise_t.d, cruise_t.v) THEN "zero"
          ELSE IF Gt(cruise_t.d, Zero) THEN "pos" ELSE "neg")

ZeroDesc ==
    [accel_order |-> 0, start_accel_v |-> Zero, cruise_v |-> Zero,
     effective_accel |-> Zero, effective_decel |-> Zero,
     accel_t |-> ZeroSlice, accel_offset_t |-> ZeroOff,
     total_accel_t |-> ZeroT,
     decel_t |-> ZeroSlice, decel_offset_t |-> ZeroOff,
     total_decel_t |-> ZeroT,
     cruise_t |-> [d |-> Zero, v |-> Q(1)]]

\* scurve_velocity(&s_acc, 0.) / scurve_velocity(&s_dec, 0.)
DescStartV(d) ==
    IF SliceTime(d.total_accel_t, d.accel_t)
    THEN CurveV(d.accel_order, d.total_accel_t, d.start_accel_v, d.accel_t.lo)
    ELSE IF CruiseSign(d.cruise_t) = "pos" THEN V2(d.cruise_v)
    ELSE DecelV(d.accel_order, d.total_decel_t, d.start_accel_v, d.cruise_v,
                d.decel_t.hi)

\* scurve_velocity(&s_dec, decel_t) / scurve_velocity(&s_acc, accel_t)
DescEndV(d) ==
    IF SliceTime(d.total_decel_t, d.decel_t)
    THEN DecelV(d.accel_order, d.total_decel_t, d.start_accel_v, d.cruise_v,
                d.decel_t.lo)
    ELSE IF CruiseSign(d.cruise_t) = "pos" THEN V2(d.cruise_v)
    ELSE CurveV(d.accel_order, d.total_accel_t, d.start_accel_v, d.accel_t.hi)

\* (n / d) * 10000 in fixed point
Scaled(x) ==
    ((x[1] * 10000) \div x[2]) * FP + (((x[1] * 10000) % x[2]) * FP) \div x[2]

\* a getmove without the velocity comparison
VelJump_unchecked(a, b) == FALSE

\* fabs(a - b) > 0.0001
VelJump(a, b) ==
    IF a.k = "v2" /\ b.k = "v2"
    THEN LET hi == MAX(a.v2, b.v2)
             lo == MIN(a.v2, b.v2)
             delta == Minus(hi, lo)
         IN  /\ hi # lo
             /\ \/ Ge(delta, <<1, 400>>)
                \/ Scaled(delta) > 2 * FSqrt(lo) + 1
    ELSE a # b

\* the descriptor moveq_getmove fills in from a move
fill_accel_decel(move) ==
    LET accel == move.accel_group
        decel == move.decel_group
        cruise_d == Minus(Minus(move.move_d, accel.accel_d), decel.accel_d)
    IN  [accel_order |-> accel.accel_order,
         start_accel_v |-> accel.start_accel_v,
         cruise_v |-> move.cruise_v,
         effective_accel |-> accel.effective_accel,
         effective_decel |-> decel.effective_accel,
         accel_t |-> accel.accel_t,
         accel_offset_t |-> accel.accel_offset_t,
         total_accel_t |-> accel.total_accel_t,
         decel_t |-> decel.accel_t,
         decel_offset_t |-> decel.accel_offset_t,
         total_decel_t |-> decel.total_accel_t,
         cruise_t |-> [d |-> cruise_d, v |-> move.cruise_v]]

\* a duration that leaves the cruise phase out
total_move_t_no_cruise(d) == <<d.accel_t, d.decel_t>>

\* accel_t + cruise_t + decel_t: the three terms of the sum
total_move_t(d) == <<d.accel_t, d.cruise_t, d.decel_t>>

\* a descriptor that keeps the cruise time as it was computed
clamp_cruise_t_none(d) == d

\* accel_decel->cruise_t = MAX(0., accel_decel->cruise_t)
clamp_cruise_t(d) == [d EXCEPT !.cruise_t.d = MAX(Zero, @)]

\* an empty queue that is answered with a duration of 0
getmove_empty_zero(prev_move_end_v) ==
    [accel_decel |-> ZeroDesc, ret |-> 0, ok |-> FALSE,
     end_v |-> prev_move_end_v]

\* list_empty(&mq->moves): the descriptor is cleared, the error is returned
getmove_empty(prev_move_end_v) ==
    [accel_decel |-> ZeroDesc, ret |-> ERROR_RET, ok |-> FALSE,
     end_v |-> prev_move_end_v]

\* a moveq_getmove that stores the end velocity before it compares the
\* start velocity with mq->prev_move_end_v
moveq_getmove_store_first(mem, q, prev_move_end_v) ==
    IF q = <<>>
    THEN getmove_empty(prev_move_end_v)
    ELSE Let(fill_accel_decel(mem[q[1]]), LAMBDA d :
         IF CruiseSign(d.cruise_t) = "neg"
         THEN [accel_decel |-> d, ret |-> ERROR_RET, ok |-> FALSE,
               end_v |-> prev_move_end_v]
         ELSE IF VelJump(prev_move_end_v, DescStartV(d))
         THEN [accel_decel |-> clamp_cruise_t(d),
               ret |-> ERROR_RET, ok |-> FALSE, end_v |-> DescEndV(d)]
         ELSE [accel_decel |-> clamp_cruise_t(d),
               ret |-> total_move_t(clamp_cruise_t(d)),
               ok |-> TRUE, end_v |-> DescEndV(d)])

\* R is [accel_decel, ret, ok, end_v]
moveq_getmove(mem, q, prev_move_end_v) ==
    IF q = <<>>
    THEN getmove_empty(prev_move_end_v)
    ELSE Let(fill_accel_decel(mem[q[1]]), LAMBDA d :
         IF CruiseSign(d.cruise_t) = "neg"
         THEN [accel_decel |-> d, ret |-> ERROR_RET, ok |-> FALSE,
               end_v |-> prev_move_end_v]
         ELSE IF VelJump(prev_move_end_v, DescStartV(d))
         THEN [accel_decel |-> clamp_cruise_t(d),
               ret |-> ERROR_RET, ok |-> FALSE, end_v |-> prev_move_end_v]
         ELSE [accel_decel |-> clamp_cruise_t(d),
               ret |-> total_move_t(clamp_cruise_t(d)),
               ok |-> TRUE, end_v |-> DescEndV(d)])

\* ================================================================ trapq
\* One axis of struct coord is kept: move_get_coord treats the three alike.
\* A trapq is [version, moves]: the list with its two sentinels, the head
\* sentinel first and the tail sentinel last.

\* 9999999999999999.9, and the 9999999999999999. of trapq.c, are the same
\* double (1e16): a time above every time that is added
NEVER_TIME == <<9999999, 1>>

MAX_NULL_MOVE == <<1, 1>>

TrapqVersions == {"klippy/chelper/trapq.c", "unnamed/part_009"}

ZeroScurve == [c1 |-> Zero, c2 |-> Zero, c3 |-> Zero, c4 |-> Zero]

\* memset(m, 0, sizeof(*m))
move_alloc ==
    [print_time |-> Zero, move_t |-> Zero, start_pos |-> Zero,
     axes_r |-> Zero, s |-> ZeroScurve]

max_accel_comp(accel_comp, accel_t) ==
    MIN(accel_comp, Times(Times(accel_t, accel_t), <<159, 1000>>))

scurve_fill_bezier2(start_accel_v, effective_accel, accel_offset_t) ==
    [ZeroScurve EXCEPT
        !.c2 = Half(effective_accel),
        !.c1 = Plus(start_accel_v, Times(effective_accel, accel_offset_t))]

scurve_fill_bezier4(start_accel_v, effective_accel, total_accel_t, accel_offset_t, accel_comp) ==
    IF total_accel_t = Zero THEN ZeroScurve
    ELSE LET accel_div_accel_t == Over(effective_accel, total_accel_t)
             accel_div_accel_t2 == Over(accel_div_accel_t, total_accel_t)
             c4 == Times(<<-1, 2>>, accel_div_accel_t2)
             c3 == accel_div_accel_t
             c2 == Times(Times(Q(-6), accel_div_accel_t2), accel_comp)
             c1 == Plus(start_accel_v,
                        Times(Times(Q(6), accel_div_accel_t), accel_comp))
             o == accel_offset_t
         IN  [c1 |-> Plus(c1, Times(Plus(Times(Plus(Times(Times(Q(4), c4), o),
                                                    Times(Q(3), c3)), o),
                                         Twice(c2)), o)),
              c2 |-> Plus(c2, Times(Plus(Times(Times(Q(6), c4), o),
                                         Times(Q(3), c3)), o)),
              c3 |-> Plus(c3, Times(Times(Q(4), c4), o)),
              c4 |-> c4]

\* accel_order is 2 or 4
scurve_fill(accel_order, accel_t, accel_offset_t, total_accel_t, start_accel_v, effective_accel, accel_comp) ==
    IF accel_order = 4
    THEN scurve_fill_bezier4(start_accel_v, effective_accel, total_accel_t,
                             accel_offset_t,
                             max_accel_comp(accel_comp, total_accel_t))
    ELSE scurve_fill_bezier2(start_accel_v, effective_accel, accel_offset_t)

\* c5 and c6 are 0
scurve_eval(s, time) ==
    Times(Plus(s.c1, Times(Plus(s.c2, Times(Plus(s.c3, Times(s.c4, time)),
                                            time)), time)), time)

move_get_coord(m, move_time) ==
    Plus(m.start_pos, Times(m.axes_r, scurve_eval(m.s, move_time)))

trapq_alloc(version) ==
    [version |-> version,
     moves |-> << move_alloc,
                  [move_alloc EXCEPT
                      !.move_t = NEVER_TIME,
                      !.print_time = IF version = "unnamed/part_009"
                                     THEN NEVER_TIME ELSE Zero] >>]

head_sentinel(tq) == tq.moves[1]
tail_sentinel(tq) == tq.moves[Len(tq.moves)]

\* the moves between the sentinels
Segments(tq) == SubSeq(tq.moves, 2, Len(tq.moves) - 1)

\* the end of the last queued segment
LastEnd(q) ==
    Plus(q.moves[Len(q.moves) - 1].print_time, q.moves[Len(q.moves) - 1].move_t)

\* list_add_before(&m->node, &tail_sentinel->node)
add_before_tail(list, m) ==
    SubSeq(list, 1, Len(list) - 1) \o <<m, list[Len(list)]>>

trapq_check_sentinels(tq) ==
    LET n == Len(tq.moves)
        m == tq.moves[n - 1]
    IN  IF tq.moves[n].print_time # Zero THEN tq
        ELSE IF tq.version = "unnamed/part_009" /\ n = 2
        THEN [tq EXCEPT !.moves[n].print_time = NEVER_TIME]
        ELSE [tq EXCEPT
                !.moves[n].print_time = Plus(m.print_time, m.move_t),
                !.moves[n].start_pos = move_get_coord(m, m.move_t)]

\* the null move that fills the gap before m
null_move(tq, m) ==
    LET prev == tq.moves[Len(tq.moves) - 1]
        print_time ==
            IF /\ tq.version = "unnamed/part_009"
               /\ prev.print_time = Zero
               /\ Gt(m.print_time, MAX_NULL_MOVE)
            THEN Minus(m.print_time, MAX_NULL_MOVE)
            ELSE Plus(prev.print_time, prev.move_t)
    IN  [move_alloc EXCEPT
            !.start_pos = m.start_pos,
            !.print_time = print_time,
            !.move_t = Minus(m.print_time, print_time)]

trapq_add_move(tq, m) ==
    LET prev == tq.moves[Len(tq.moves) - 1]
        gap == Lt(Plus(prev.print_time, prev.move_t), m.print_time)
        l1 == IF gap THEN add_before_tail(tq.moves, null_move(tq, m))
              ELSE tq.moves
        l2 == add_before_tail(l1, m)
    IN  [tq EXCEPT !.moves = [l2 EXCEPT ![Len(l2)].print_time = Zero]]

\* a loop that also keeps the moves that end at print_time
RECURSIVE free_loop_before(_, _)
free_loop_before(list, print_time) ==
    IF Len(list) = 2 \/ Ge(Plus(list[2].print_time, list[2].move_t), print_time)
    THEN list
    ELSE free_loop_before(<<list[1]>> \o SubSeq(list, 3, Len(list)),
                          print_time)

\* the list after the loop of trapq_free_moves: the moves behind the head
\* sentinel are freed up to the first that ends after print_time
RECURSIVE free_loop(_, _)
free_loop(list, print_time) ==
    IF Len(list) = 2 \/ Gt(Plus(list[2].print_time, list[2].move_t), print_time)
    THEN list
    ELSE free_loop(<<list[1]>> \o SubSeq(list, 3, Len(list)), print_time)

trapq_free_moves(tq, print_time) ==
    LET l == free_loop(tq.moves, print_time)
        n == Len(l)
    IN  IF tq.version = "unnamed/part_009"
        THEN IF n = 2
             THEN [tq EXCEPT !.moves = [l EXCEPT ![n].print_time = NEVER_TIME]]
             ELSE [tq EXCEPT !.moves = l]
        ELSE LET l1 == IF n = 2 THEN [l EXCEPT ![n].print_time = Zero] ELSE l
             IN  [tq EXCEPT !.moves =
                     [l1 EXCEPT ![1].move_t = l1[2].print_time,
                                ![1].start_pos = l1[2].start_pos]]

\* the segment trapq_append makes of one phase of the descriptor
append_move(print_time, start_pos, axes_r, move_t, s) ==
    [print_time |-> print_time, move_t |-> move_t, start_pos |-> start_pos,
     axes_r |-> axes_r, s |-> s]

\* a phase that leaves the locals print_time and start_pos as they were
append_phase_in_place(P, axes_r, move_t, s) ==
    IF move_t = Zero THEN P
    ELSE LET m == append_move(P.print_time, P.start_pos, axes_r, move_t, s)
         IN  [P EXCEPT !.tq = trapq_add_move(P.tq, m)]

\* P is [tq, print_time, start_pos]: the queue and the two locals
append_phase(P, axes_r, move_t, s) ==
    IF move_t = Zero THEN P
    ELSE LET m == append_move(P.print_time, P.start_pos, axes_r, move_t, s)
         IN  [tq |-> trapq_add_move(P.tq, m),
              print_time |-> Plus(P.print_time, move_t),
              start_pos |-> move_get_coord(m, move_t)]

trapq_append(tq, print_time, start_pos, axes_r, accel_decel) ==
    LET d == accel_decel
        P0 == [tq |-> tq, print_time |-> print_time, start_pos |-> start_pos]
        P1 == append_phase(P0, axes_r, d.accel_t,
                  scurve_fill(d.accel_order, d.accel_t, d.accel_offset_t,
                              d.total_accel_t, d.start_accel_v,
                              d.effective_accel, d.accel_comp))
        P2 == append_phase(P1, axes_r, d.cruise_t,
                  scurve_fill(2, d.cruise_t, Zero, d.cruise_t, d.cruise_v,
                              Zero, Zero))
        P3 == append_phase(P2, axes_r, d.decel_t,
                  scurve_fill(d.accel_order, d.decel_t, d.decel_offset_t,
                              d.total_decel_t, d.cruise_v,
                              Times(Q(-1), d.effective_decel), d.accel_comp))
    IN  P3.tq

\* trapq_find_move from the move at index i of the list: the index of the
\* move found and the time within it; past tells that the walk has stepped
\* from a sentinel to the head of the list, which is no move
RECURSIVE trapq_find_move(_, _, _)
trapq_find_move(list, i, move_time) ==
    IF i < 1 \/ i > Len(list)
    THEN [past |-> TRUE, m |-> i, time |-> move_time]
    ELSE IF Lt(move_time, Zero)
    THEN IF i = 1 THEN [past |-> TRUE, m |-> 0, time |-> move_time]
         ELSE trapq_find_move(list, i - 1,
                              Plus(move_time, list[i - 1].move_t))
    ELSE IF Gt(move_time, list[i].move_t)
    THEN trapq_find_move(list, i + 1, Minus(move_time, list[i].move_t))
    ELSE [past |-> FALSE, m |-> i, time |-> move_time]

\* ----------------------------------------------------- the input shaper
\* (kin_shaper: src/unnamed/part_009, and the older one-axis version in
\* src/klippy/chelper/kin_extruder.c).  The amplitudes are exact rationals;
\* the operators below give the values of Plus, Times and Lt and cancel
\* before they multiply.
SPlus(x, y) ==
    LET g == gcd(x[2], y[2])
    IN  R(x[1] * (y[2] \div g) + y[1] * (x[2] \div g), x[2] * (y[2] \div g))

STimes(x, y) ==
    LET a == R(x[1], y[2])
        b == R(y[1], x[2])
    IN  R(a[1] * b[1], a[2] * b[2])

SLt(x, y) ==
    LET g == gcd(x[2], y[2])
    IN  x[1] * (y[2] \div g) < y[1] * (x[2] \div g)

SInv(x) == R(x[2], x[1])

RECURSIVE SSum(_)
SSum(xs) == IF xs = <<>> THEN Zero ELSE SPlus(xs[1], SSum(Tail(xs)))

ShaperVersions == {"klippy/chelper/kin_extruder.c", "unnamed/part_009"}

INPUT_SHAPER_ZV == 0
INPUT_SHAPER_ZVD == 1
INPUT_SHAPER_ZVDD == 2
INPUT_SHAPER_ZVDDD == 3
INPUT_SHAPER_EI == 4
INPUT_SHAPER_2HUMP_EI == 5

\* (1 - EI_SHAPER_VIB_TOL) / (1 + EI_SHAPER_VIB_TOL) with the tolerance 0.05
EI_VIB_RATIO == <<19, 21>>

\* the damping ratios a shaper is configured with; the last one stands for
\* the ratios so close to 1 that calc_ZV_K underflows
DampingRatios == {Zero, <<1, 4>>, <<1, 2>>, <<3, 4>>, <<999, 1000>>}

\* exp(-damping_ratio * M_PI / sqrt(1. - damping_ratio*damping_ratio)), to
\* the nearest small fraction; 1 for the ratio 0, which the code tests for
calc_ZV_K(damping_ratio) ==
    CASE damping_ratio = Zero -> Q(1)
      [] damping_ratio = <<1, 4>> -> <<4, 9>>
      [] damping_ratio = <<1, 2>> -> <<1, 6>>
      [] damping_ratio = <<3, 4>> -> <<1, 35>>
      [] OTHER -> Zero

\* exp(-M_PI * damping_ratio), to the nearest small fraction
exp_pi(damping_ratio) ==
    CASE damping_ratio = Zero -> Q(1)
      [] damping_ratio = <<1, 4>> -> <<5, 11>>
      [] damping_ratio = <<1, 2>> -> <<5, 24>>
      [] damping_ratio = <<3, 4>> -> <<2, 21>>
      [] OTHER -> <<1, 23>>

Pulse(t, a) == [t |-> t, a |-> a]

init_shaper_zv(half_period, damping_ratio) ==
    LET K == calc_ZV_K(damping_ratio)
        inv_D == SInv(SPlus(Q(1), K))
    IN  << Pulse(STimes(<<-1, 2>>, half_period), STimes(K, inv_D)),
           Pulse(STimes(<<1, 2>>, half_period), inv_D) >>

init_shaper_zvd(half_period, damping_ratio) ==
    LET K == calc_ZV_K(damping_ratio)
        K2 == STimes(K, K)
        inv_D == SInv(SSum(<<K2, STimes(Q(2), K), Q(1)>>))
    IN  << Pulse(STimes(Q(-1), half_period), STimes(K2, inv_D)),
           Pulse(Zero, STimes(STimes(Q(2), K), inv_D)),
           Pulse(half_period, inv_D) >>

init_shaper_zvdd(half_period, damping_ratio) ==
    LET K == calc_ZV_K(damping_ratio)
        K2 == STimes(K, K)
        K3 == STimes(K2, K)
        inv_D == SInv(SSum(<<K3, STimes(Q(3), K2), STimes(Q(3), K), Q(1)>>))
    IN  << Pulse(STimes(<<-3, 2>>, half_period), STimes(K3, inv_D)),
           Pulse(STimes(<<-1, 2>>, half_period),
                 STimes(STimes(Q(3), K2), inv_D)),
           Pulse(STimes(<<1, 2>>, half_period),
                 STimes(STimes(Q(3), K), inv_D)),
           Pulse(STimes(<<3, 2>>, half_period), inv_D) >>

init_shaper_zvddd(half_period, damping_ratio) ==
    LET K == calc_ZV_K(damping_ratio)
        K2 == STimes(K, K)
        K3 == STimes(K2, K)
        K4 == STimes(K3, K)
        inv_D == SInv(SSum(<<K4, STimes(Q(4), K3), STimes(Q(6), K2),
                             STimes(Q(4), K), Q(1)>>))
    IN  << Pulse(STimes(Q(-2), half_period), STimes(K4, inv_D)),
           Pulse(STimes(Q(-1), half_period),
                 STimes(STimes(Q(4), K3), inv_D)),
           Pulse(Zero, STimes(STimes(Q(6), K2), inv_D)),
           Pulse(half_period, STimes(STimes(Q(4), K), inv_D)),
           Pulse(STimes(Q(2), half_period), inv_D) >>

init_shaper_ei(half_period, damping_ratio) ==
    LET k == exp_pi(damping_ratio)
        a2 == STimes(STimes(Q(2), EI_VIB_RATIO), k)
        a3 == STimes(k, k)
        inv_D == SInv(SSum(<<Q(1), a2, a3>>))
    IN  << Pulse(STimes(Q(-1), half_period), STimes(a3, inv_D)),
           Pulse(Zero, STimes(a2, inv_D)),
           Pulse(half_period, inv_D) >>

\* c0 + c1 * d_r + c2 * d_r2 + c3 * d_r3, the coefficients in 1/100000
Poly(c0, c1, c2, c3, d_r) ==
    LET n == d_r[1]
        d == d_r[2]
    IN  R(c0 * d * d * d + c1 * n * d * d + c2 * n * n * d + c3 * n * n * n,
          100000 * d * d * d)

\* the 2-hump EI shaper without the division by the sum of the amplitudes
init_shaper_2hump_ei_raw(half_period, damping_ratio) ==
    LET d_r == damping_ratio
        hp2 == STimes(Q(-2), half_period)
    IN  << Pulse(STimes(hp2, Poly(149920 - 75000, -9297, -28338, 185710, d_r)),
                 Poly(15997, -60246, 100280, -93145, d_r)),
           Pulse(STimes(hp2, Poly(99748 - 75000, 18382, -158270, 817120, d_r)),
                 Poly(34089, -61533, -68765, 42261, d_r)),
           Pulse(STimes(hp2, Poly(49890 - 75000, 16270, -54262, 616180, d_r)),
                 Poly(33911, 45081, -258080, 173650, d_r)),
           Pulse(STimes(hp2, <<-3, 4>>),
                 Poly(16054, 76699, 226560, -122750, d_r)) >>

init_shaper_2hump_ei(half_period, damping_ratio) ==
    LET raw == init_shaper_2hump_ei_raw(half_period, damping_ratio)
        inv_D == SInv(SSum(<<raw[4].a, raw[3].a, raw[2].a, raw[1].a>>))
    IN  [i \in 1..4 |-> Pulse(raw[i].t, STimes(raw[i].a, inv_D))]

\* init_shaper_callbacks[shaper_type]
init_shaper_cb(shaper_type, half_period, damping_ratio) ==
    CASE shaper_type = INPUT_SHAPER_ZV ->
             init_shaper_zv(half_period, damping_ratio)
      [] shaper_type = INPUT_SHAPER_ZVD ->
             init_shaper_zvd(half_period, damping_ratio)
      [] shaper_type = INPUT_SHAPER_ZVDD ->
             init_shaper_zvdd(half_period, damping_ratio)
      [] shaper_type = INPUT_SHAPER_ZVDDD ->
             init_shaper_zvddd(half_period, damping_ratio)
      [] shaper_type = INPUT_SHAPER_EI ->
             init_shaper_ei(half_period, damping_ratio)
      [] shaper_type = INPUT_SHAPER_2HUMP_EI ->
             init_shaper_2hump_ei(half_period, damping_ratio)

\* a pointer to a stepper_kinematics, by the active_flags found there (a
\* set of axes for the bits AF_X, AF_Y, AF_Z), and the null pointer
Hook(active_flags) == [null |-> FALSE, active_flags |-> active_flags]
NullHook == [null |-> TRUE, active_flags |-> {}]

\* struct input_shaper after memset(is, 0, sizeof(*is))
input_shaper_alloc(version) ==
    [version |-> version,
     sk |-> [calc_position_cb |-> "NULL", active_flags |-> {},
             gen_steps_pre_active |-> Zero, gen_steps_post_active |-> Zero],
     orig_sk |-> NullHook,
     pulses |-> <<>>, x_pulses |-> <<>>, y_pulses |-> <<>>]

\* the older version wraps every hook
input_shaper_set_sk_any(is, orig_sk) ==
    [ret |-> 0,
     is |-> [is EXCEPT !.sk.calc_position_cb = "shaper_calc_position",
                       !.sk.active_flags = orig_sk.active_flags,
                       !.orig_sk = orig_sk]]

input_shaper_set_sk(is, orig_sk) ==
    LET af == orig_sk.active_flags \cap {"x", "y"}
        cb == IF af = {"x", "y"} THEN "shaper_xy_calc_position"
              ELSE IF "x" \in af THEN "shaper_x_calc_position"
              ELSE "shaper_y_calc_position"
    IN  IF is.version = "klippy/chelper/kin_extruder.c"
        THEN input_shaper_set_sk_any(is, orig_sk)
        ELSE IF af = {} THEN [ret |-> -1, is |-> is]
        ELSE [ret |-> 0,
              is |-> [is EXCEPT !.sk.calc_position_cb = cb,
                                !.sk.active_flags = orig_sk.active_flags,
                                !.orig_sk = orig_sk]]

shaper_note_generation_time(is) ==
    IF is.version = "klippy/chelper/kin_extruder.c"
    THEN [is EXCEPT
             !.sk.gen_steps_pre_active = STimes(Q(-1), is.pulses[1].t),
             !.sk.gen_steps_post_active = is.pulses[Len(is.pulses)].t]
    ELSE LET x == "x" \in is.sk.active_flags
             y == "y" \in is.sk.active_flags
             pre_x == IF x THEN STimes(Q(-1), is.x_pulses[1].t) ELSE Zero
             post_x == IF x THEN is.x_pulses[Len(is.x_pulses)].t ELSE Zero
             pre_y == STimes(Q(-1), is.y_pulses[1].t)
             post_y == is.y_pulses[Len(is.y_pulses)].t
         IN  [is EXCEPT
                 !.sk.gen_steps_pre_active =
                     IF y /\ SLt(pre_x, pre_y) THEN pre_y ELSE pre_x,
                 !.sk.gen_steps_post_active =
                     IF y /\ SLt(post_x, post_y) THEN post_y ELSE post_x]

\* the array index of an unknown type is checked after the pointer is used
input_shaper_set_shaper_params_late(is, damped_spring_period_x, damped_spring_period_y, damping_ratio_x, damping_ratio_y, shaper_type) ==
    [ret |-> IF shaper_type \in 0..5 THEN 0 ELSE -1, segv |-> FALSE,
     is |-> [is EXCEPT !.pulses = <<>>, !.x_pulses = <<>>, !.y_pulses = <<>>]]

\* segv: is->orig_sk is a null pointer when its active_flags are read
input_shaper_set_shaper_params(is, damped_spring_period_x, damped_spring_period_y, damping_ratio_x, damping_ratio_y, shaper_type) ==
    IF shaper_type \notin 0..5 THEN [ret |-> -1, segv |-> FALSE, is |-> is]
    ELSE IF is.version = "klippy/chelper/kin_extruder.c"
    THEN [ret |-> 0, segv |-> FALSE,
          is |-> shaper_note_generation_time(
                     [is EXCEPT !.pulses = init_shaper_cb(shaper_type,
                          Half(damped_spring_period_x), damping_ratio_x)])]
    ELSE IF is.orig_sk.null THEN [ret |-> 0, segv |-> TRUE, is |-> is]
    ELSE LET af == is.orig_sk.active_flags
             is1 == IF "x" \in af
                    THEN [is EXCEPT !.x_pulses = init_shaper_cb(shaper_type,
                             Half(damped_spring_period_x), damping_ratio_x)]
                    ELSE is
             is2 == IF "y" \in af
                    THEN [is1 EXCEPT !.y_pulses = init_shaper_cb(shaper_type,
                             Half(damped_spring_period_y), damping_ratio_y)]
                    ELSE is1
         IN  [ret |-> 0, segv |-> FALSE,
              is |-> shaper_note_generation_time(is2)]

\* ------------------------------------------------------ the state machine
VARIABLES
    mem,                 \* the qmoves ever allocated, by id
    moves,               \* mq->moves: the ids of the queued moves
    prev_end_v2,         \* mq->prev_end_v2
    prev_move_end_v,     \* mq->prev_move_end_v
    smoothed_pass_limit, \* mq->smoothed_pass_limit (0 is NULL)
    accel_combiner,      \* mq->accel_combiner
    crashed,             \* the process has died
    op,                  \* the last call
    ret,                 \* what it returned
    accel_decel,         \* the descriptor handed to the last call
    accel_order,         \* the acceleration order the caller is configured with
    tq,                  \* the trapq
    tq_op,               \* the last call on the trapq
    is,                  \* the input shaper
    is_op                \* the last call on the input shaper

moveq_vars == <<mem, moves, prev_end_v2, prev_move_end_v, smoothed_pass_limit,
                accel_combiner, crashed, op, ret, accel_decel, accel_order>>

vars == <<mem, moves, prev_end_v2, prev_move_end_v, smoothed_pass_limit,
          accel_combiner, crashed, op, ret, accel_decel, accel_order,
          tq, tq_op, is, is_op>>

trapq_vars == <<tq, tq_op>>

shaper_vars == <<is, is_op>>

\* a freed qmove: only the fact that it is freed is kept
Freed(id) == [ZeroMove(id) EXCEPT !.live = FALSE]

\* the arguments of moveq_add the caller draws from
MoveTypes ==
    { [move_d |-> Q(1), junction_max_v2 |-> Q(2), velocity |-> Q(2),
       accel_order |-> o, accel |-> Q(1), smoothed_accel |-> Q(1),
       jerk |-> Q(1000 * 1000), min_jerk_limit_time |-> Zero] : o \in {2, 4} }
    \cup
    { [move_d |-> Q(2), junction_max_v2 |-> Q(1), velocity |-> Q(2),
       accel_order |-> 4, accel |-> Q(1), smoothed_accel |-> <<1, 2>>,
       jerk |-> Q(1000 * 1000), min_jerk_limit_time |-> Zero] }

World ==
    [mem |-> mem, ac |-> accel_combiner, q |-> moves, vt |-> ZeroVT,
     prev_end_v2 |-> prev_end_v2, uaf |-> FALSE, relinked |-> FALSE,
     cleared |-> <<>>, segv |-> FALSE,
     hang |-> FALSE, planned |-> <<>>, flushed |-> <<>>]

Code(v) == [k |-> "int", v |-> v]
Secs(t) == [k |-> "time", t |-> t]

Init ==
    /\ mem = <<>>
    /\ moves = <<>>
    /\ prev_end_v2 = Zero
    /\ prev_move_end_v = V2(Zero)
    /\ smoothed_pass_limit = 0
    /\ accel_combiner = ZeroAC
    /\ crashed = FALSE
    /\ op = [name |-> "alloc"]
    /\ ret = Code(0)
    /\ accel_decel = ZeroDesc
    /\ accel_order \in {2, 4}
    /\ tq = trapq_alloc("klippy/chelper/trapq.c")
    /\ tq_op = [name |-> "alloc"]
    /\ is = input_shaper_alloc("unnamed/part_009")
    /\ is_op = [name |-> "alloc"]

\* the qmove moveq_add allocates behind the queue q of the moves M
qmove_of(M, q, id, a) ==
    LET prev_move == M[Last(q)]
        max_cruise_v2 == Times(a.velocity, a.velocity)
        m == [ZeroMove(id) EXCEPT
                !.move_d = a.move_d,
                !.default_accel = fill_accel_group(ZeroAG, id, a.accel_order,
                    a.accel, a.jerk, a.min_jerk_limit_time),
                !.max_cruise_v2 = max_cruise_v2,
                !.junction_max_v2 = a.junction_max_v2,
                !.max_cruise_v2_arg = max_cruise_v2,
                !.junction_max_v2_arg = a.junction_max_v2,
                !.smooth_delta_v2 = Times(Twice(a.smoothed_accel), a.move_d)]
    IN  IF q # <<>>
        THEN [m EXCEPT !.max_smoothed_v2 =
                 MIN(MIN(Plus(prev_move.max_smoothed_v2,
                              prev_move.smooth_delta_v2),
                         a.junction_max_v2),
                     MIN(max_cruise_v2, prev_move.max_cruise_v2))]
        ELSE m

new_qmove(id, a) == qmove_of(mem, moves, id, a)

MoveqAdd(a) ==
    /\ ~crashed
    /\ a.accel_order = accel_order
    /\ Len(mem) < MaxAdds
    /\ Len(moves) < MaxQueue
    /\ mem' = Append(mem, new_qmove(Len(mem) + 1, a))
    /\ moves' = list_add_tail(moves, Len(mem) + 1)
    /\ op' = [name |-> "add"]
    /\ ret' = Code(0)
    /\ accel_decel' = ZeroDesc
    /\ UNCHANGED <<prev_end_v2, prev_move_end_v, smoothed_pass_limit,
                   accel_combiner, crashed, accel_order, tq, tq_op, is, is_op>>

MoveqPlan(lazy) ==
    /\ ~crashed
    /\ \E r \in {moveq_plan(World, lazy, smoothed_pass_limit)} :
           /\ op' = [name |-> "plan", lazy |-> lazy, flushed |-> r.W.flushed]
           /\ \/ /\ r.W.segv \/ r.W.hang \/ r.W.uaf
                 /\ crashed' = TRUE
                 /\ UNCHANGED <<mem, moves, prev_end_v2, smoothed_pass_limit,
                                accel_combiner, ret, accel_decel>>
              \/ /\ ~r.W.segv /\ ~r.W.hang
                 /\ mem' = r.W.mem
                 /\ moves' = r.W.q
                 /\ prev_end_v2' = r.W.prev_end_v2
                 /\ smoothed_pass_limit' = r.smoothed_pass_limit
                 /\ accel_combiner' = r.W.ac
                 /\ ret' = Code(r.ret)
                 /\ accel_decel' = ZeroDesc
                 /\ UNCHANGED crashed
    /\ UNCHANGED <<prev_move_end_v, accel_order, tq, tq_op, is, is_op>>

MoveqGetmove ==
    /\ ~crashed
    /\ \E r \in {moveq_getmove(mem, moves, prev_move_end_v)} :
           /\ accel_decel' = r.accel_decel
           /\ ret' = IF r.ok THEN Secs(r.ret) ELSE Code(r.ret)
           /\ prev_move_end_v' = r.end_v
           /\ moves' = IF r.ok THEN Tail(moves) ELSE moves
           /\ mem' = IF r.ok THEN [mem EXCEPT ![moves[1]] = Freed(moves[1])]
                     ELSE mem
    /\ op' = [name |-> "getmove",
              cruise_d |-> IF moves = <<>> THEN Zero
                           ELSE fill_accel_decel(mem[moves[1]]).cruise_t.d]
    /\ UNCHANGED <<prev_end_v2, smoothed_pass_limit, accel_combiner, crashed,
                   accel_order, tq, tq_op, is, is_op>>

\* every queued move is freed first, so each junction point reset_combiner
\* then unlinks lies inside freed memory
MoveqReset ==
    /\ ~crashed
    /\ op' = [name |-> "reset"]
    /\ \E W2 \in {reset_combiner([World EXCEPT
                      !.mem = [id \in DOMAIN mem |-> Freed(id)],
                      !.q = <<>>])} :
           \/ /\ W2.uaf
              /\ crashed' = TRUE
              /\ UNCHANGED <<mem, moves, prev_end_v2, prev_move_end_v,
                             smoothed_pass_limit, accel_combiner, ret,
                             accel_decel>>
           \/ /\ mem' = <<>>
              /\ moves' = W2.q
              /\ prev_end_v2' = Zero
              /\ prev_move_end_v' = V2(Zero)
              /\ smoothed_pass_limit' = 0
              /\ accel_combiner' = ZeroAC
              /\ ret' = Code(0)
              /\ accel_decel' = ZeroDesc
              /\ UNCHANGED crashed
    /\ UNCHANGED <<accel_order, tq, tq_op, is, is_op>>

Next ==
    \/ \E a \in MoveTypes : MoveqAdd(a)
    \/ \E lazy \in BOOLEAN : MoveqPlan(lazy)
    \/ MoveqGetmove
    \/ MoveqReset

Spec == Init /\ [][Next]_vars

\* ------------------------------------------- the input shaper's calls
\* the hooks handed to input_shaper_set_sk, by their active_flags
WrappedHooks ==
    { Hook(f) : f \in {{"x"}, {"y"}, {"x", "y"}, {"z"}} }

\* shaper types of the enum and the two next to it
ShaperTypes == -1..6

\* the damping ratios of the x and of the y axis in these calls
DampingRatiosX == {Zero, <<1, 4>>}
DampingRatiosY == {<<1, 2>>}

ShaperParams ==
    [damping_ratio_x : DampingRatiosX, damping_ratio_y : DampingRatiosY,
     shaper_type : ShaperTypes]

ShaperInit ==
    /\ mem = <<>>
    /\ moves = <<>>
    /\ prev_end_v2 = Zero
    /\ prev_move_end_v = V2(Zero)
    /\ smoothed_pass_limit = 0
    /\ accel_combiner = ZeroAC
    /\ crashed = FALSE
    /\ op = [name |-> "alloc"]
    /\ ret = Code(0)
    /\ accel_decel = ZeroDesc
    /\ accel_order = 2
    /\ tq = trapq_alloc("klippy/chelper/trapq.c")
    /\ tq_op = [name |-> "alloc"]
    /\ is \in {input_shaper_alloc(v) : v \in ShaperVersions}
    /\ is_op = [name |-> "alloc", ret |-> 0, segv |-> FALSE]

InputShaperSetSk(orig_sk) ==
    /\ ~is_op.segv
    /\ \E r \in {input_shaper_set_sk(is, orig_sk)} :
           /\ is' = r.is
           /\ is_op' = [name |-> "set_sk", orig_sk |-> orig_sk,
                        ret |-> r.ret, segv |-> FALSE]
    /\ UNCHANGED <<moveq_vars, trapq_vars>>

\* the spring periods are 1 s for x and 2 s for y
InputShaperSetShaperParams(p) ==
    /\ ~is_op.segv
    /\ \E r \in {input_shaper_set_shaper_params(is, Q(1), Q(2),
                     p.damping_ratio_x, p.damping_ratio_y, p.shaper_type)} :
           /\ is' = r.is
           /\ is_op' = [name |-> "set_shaper_params", p |-> p,
                        ret |-> r.ret, segv |-> r.segv]
    /\ UNCHANGED <<moveq_vars, trapq_vars>>

ShaperNext ==
    \/ \E orig_sk \in WrappedHooks : InputShaperSetSk(orig_sk)
    \/ \E p \in ShaperParams : InputShaperSetShaperParams(p)

ShaperSpec == ShaperInit /\ [][ShaperNext]_vars

\* ---------------------------- the pulses of each shaper type, one by one
HalfPeriods == {<<1, 2>>, Q(1)}

\* the polynomials of the 2-hump EI shaper are evaluated on quarters
PulseInputs ==
    { p \in [half_period : HalfPeriods, damping_ratio : DampingRatios,
             shaper_type : 0..5] :
        p.shaper_type = INPUT_SHAPER_2HUMP_EI =>
            p.damping_ratio # <<999, 1000>> }

PulseInit ==
    /\ mem = <<>>
    /\ moves = <<>>
    /\ prev_end_v2 = Zero
    /\ prev_move_end_v = V2(Zero)
    /\ smoothed_pass_limit = 0
    /\ accel_combiner = ZeroAC
    /\ crashed = FALSE
    /\ op = [name |-> "alloc"]
    /\ ret = Code(0)
    /\ accel_decel = ZeroDesc
    /\ accel_order = 2
    /\ tq = trapq_alloc("klippy/chelper/trapq.c")
    /\ tq_op = [name |-> "alloc"]
    /\ is \in {input_shaper_alloc(v) : v \in ShaperVersions}
    /\ is_op \in {[name |-> "alloc", p |-> p] : p \in PulseInputs}

\* init_shaper_cb(half_period, damping_ratio, &is->x_pulses, &is->x_n), and
\* init_shaper_cb(is, half_period, damping_ratio) of the older version
InitShaper ==
    /\ is_op.name = "alloc"
    /\ \E pulses \in {init_shaper_cb(is_op.p.shaper_type, is_op.p.half_period,
                                     is_op.p.damping_ratio)} :
           is' = IF is.version = "klippy/chelper/kin_extruder.c"
                 THEN [is EXCEPT !.pulses = pulses]
                 ELSE [is EXCEPT !.x_pulses = pulses]
    /\ is_op' = [is_op EXCEPT !.name = "init_shaper"]
    /\ UNCHANGED <<moveq_vars, trapq_vars>>

PulseNext == InitShaper

PulseSpec == PulseInit /\ [][PulseNext]_vars

\* ------------------------------------------- the ramp that set_accel emits
\* The square of calc_effective_accel: sqrt(max_jerk * delta_v / 6), lowered
\* to max_accel, then raised to min_accel.
calc_effective_accel2(ag, delta_v) ==
    LET jerk_accel2 == Over(Times(ag.max_jerk, delta_v), Q(6))
        max_accel2 == Times(ag.max_accel, ag.max_accel)
        min_accel2 == Times(ag.min_accel, ag.min_accel)
        capped == IF Gt(jerk_accel2, max_accel2) THEN max_accel2 ELSE jerk_accel2
    IN  IF ag.accel_order = 2 THEN max_accel2
        ELSE IF Lt(capped, min_accel2) THEN min_accel2 ELSE capped

\* The square of calc_min_accel_time: the longer of delta_v / max_accel and
\* sqrt(6 delta_v / max_jerk), shortened to delta_v / min_accel when
\* min_accel is not 0.
calc_min_accel_time2(ag, delta_v) ==
    LET delta_v2 == Times(delta_v, delta_v)
        accel_time2 == Over(delta_v2, Times(ag.max_accel, ag.max_accel))
        jerk_time2 == Over(Times(Q(6), delta_v), ag.max_jerk)
        t1 == IF ag.accel_order > 2 /\ Gt(jerk_time2, accel_time2)
              THEN jerk_time2 ELSE accel_time2
        floor_time2 == Over(delta_v2, Times(ag.min_accel, ag.min_accel))
    IN  IF delta_v = Zero THEN Zero
        ELSE IF ag.min_accel # Zero /\ Lt(floor_time2, t1) THEN floor_time2
        ELSE t1

\* set_accel on a ramp of one move: the ramp is written to the group when
\* its distance avg_v * combined_accel_t is positive
set_accel_ramp(ag, start_v, cruise_v_in) ==
    LET cruise_v == IF Gt(start_v, cruise_v_in) THEN start_v ELSE cruise_v_in
        delta_v == Minus(cruise_v, start_v)
        total_accel_t2 == calc_min_accel_time2(ag, delta_v)
    IN  [emitted |-> Gt(Plus(cruise_v, start_v), Zero) /\ Gt(total_accel_t2, Zero),
         delta_v |-> delta_v,
         effective_accel2 |-> calc_effective_accel2(ag, delta_v),
         total_accel_t2 |-> total_accel_t2]

JerkOrders == {2, 4, 6}
JerkAccels == {Q(1), Q(2), Q(4)}
JerkJerks == {Q(6), Q(24), Q(96)}
JerkLimitTimes == {Zero, <<1, 2>>, Q(1)}
JerkStartV == {Zero, Q(1)}
JerkCruiseV == {Zero, <<1, 16>>, <<1, 4>>, Q(1), <<5, 4>>, Q(2), Q(5)}

JerkInit ==
    /\ mem = <<>>
    /\ moves = <<>>
    /\ prev_end_v2 = Zero
    /\ prev_move_end_v = V2(Zero)
    /\ smoothed_pass_limit = 0
    /\ accel_combiner = ZeroAC
    /\ crashed = FALSE
    /\ op \in {[name |-> "fill_accel_group",
                ag |-> fill_accel_group(ZeroAG, 1, o, a, j, t)] :
                  o \in JerkOrders, a \in JerkAccels, j \in JerkJerks,
                  t \in JerkLimitTimes}
    /\ ret = Code(0)
    /\ accel_decel = ZeroDesc
    /\ accel_order = 2
    /\ tq = trapq_alloc("klippy/chelper/trapq.c")
    /\ tq_op = [name |-> "alloc"]
    /\ is = input_shaper_alloc("unnamed/part_009")
    /\ is_op = [name |-> "alloc"]

JerkVars == <<mem, moves, prev_end_v2, prev_move_end_v, smoothed_pass_limit, accel_combiner, crashed, ret, accel_decel, accel_order>>

LimitAccel(accel, jerk) ==
    /\ op.name \in {"fill_accel_group", "limit_accel"}
    /\ op' = [name |-> "limit_accel", ag |-> limit_accel(op.ag, accel, jerk),
              accel |-> accel, jerk |-> jerk]
    /\ UNCHANGED <<JerkVars, trapq_vars, shaper_vars>>

SetAccel(start_v, cruise_v) ==
    /\ op.name \in {"fill_accel_group", "limit_accel"}
    /\ op' = [name |-> "set_accel", ag |-> op.ag,
              ramp |-> set_accel_ramp(op.ag, start_v, cruise_v)]
    /\ UNCHANGED <<JerkVars, trapq_vars, shaper_vars>>

JerkNext ==
    \/ \E accel \in JerkAccels, jerk \in JerkJerks : LimitAccel(accel, jerk)
    \/ \E start_v \in JerkStartV, cruise_v \in JerkCruiseV :
           SetAccel(start_v, cruise_v)

JerkSpec == JerkInit /\ [][JerkNext]_vars

\* ------------------------------------------ sequences of limit_accel calls
\* The accelerations limit_accel is called with: limit_accel_jps passes
\* 0.5 * (junction_max_v2 - max_start_v2) / combined_d, which is negative
\* for a candidate that starts above the junction cap.
LimitAccels == JerkAccels \cup {Q(-1)}

LimitNext ==
    \E accel \in LimitAccels, jerk \in JerkJerks : LimitAccel(accel, jerk)

LimitSpec == JerkInit /\ [][LimitNext]_vars

\* ------------------------------------------- moveq_getmove on a given head
\* The distances (accel_d, decel_d) of the head move's two groups: the move
\* is 1 long, so they leave a cruise distance of 1, 1/2, 0, 5e-10
\* above and below 0, -1/2 and -1.
GroupDistances ==
    { <<Zero, Zero>>, <<(<<1, 2>>), Zero>>, <<(<<1, 2>>), (<<1, 2>>)>>,
      <<(<<1999999999, 2000000000>>), Zero>>,
      <<(<<2000000001, 2000000000>>), Zero>>,
      <<Q(1), (<<1, 2>>)>>, <<Q(2), Zero>> }

HeadMoves ==
    { [ZeroMove(1) EXCEPT !.move_d = Q(1), !.cruise_v = cv,
                          !.accel_group.accel_order = o,
                          !.decel_group.accel_order = o,
                          !.accel_group.accel_d = p[1],
                          !.decel_group.accel_d = p[2]] :
        o \in {2, 4}, cv \in {Q(1), Q(4)}, p \in GroupDistances }

\* a queue that holds one move, as moveq_getmove reads it
GetmoveInit ==
    /\ \E m \in HeadMoves :
           /\ mem = <<m>>
           /\ accel_order = m.accel_group.accel_order
    /\ moves = <<1>>
    /\ prev_end_v2 = Zero
    /\ prev_move_end_v \in {V2(Zero), V2(Q(1)), V2(Q(4))}
    /\ smoothed_pass_limit = 0
    /\ accel_combiner = ZeroAC
    /\ crashed = FALSE
    /\ op = [name |-> "alloc"]
    /\ ret = Code(0)
    /\ accel_decel = ZeroDesc
    /\ tq = trapq_alloc("klippy/chelper/trapq.c")
    /\ tq_op = [name |-> "alloc"]
    /\ is = input_shaper_alloc("unnamed/part_009")
    /\ is_op = [name |-> "alloc"]

GetmoveNext == MoveqGetmove

GetmoveSpec == GetmoveInit /\ [][GetmoveNext]_vars

\* ------------------------------------------- planning a queue of 7 moves
\* a move of length 1 at velocity 1, and a short one at velocity 1/2
LongMove(o) ==
    [move_d |-> Q(1), junction_max_v2 |-> Q(1), velocity |-> Q(1),
     accel_order |-> o, accel |-> Q(1), smoothed_accel |-> Q(1),
     jerk |-> Q(1000 * 1000), min_jerk_limit_time |-> Zero]

ShortMove(o) ==
    [LongMove(o) EXCEPT !.move_d = <<1, 4>>, !.velocity = <<1, 2>>]

\* mq->moves and the qmoves after a moveq_add of each of the moves of as
RECURSIVE AddedQueue(_)
AddedQueue(as) ==
    IF as = <<>> THEN [mem |-> <<>>, moves |-> <<>>]
    ELSE LET P == AddedQueue(SubSeq(as, 1, Len(as) - 1))
         IN  [mem |-> Append(P.mem, qmove_of(P.mem, P.moves, Len(P.mem) + 1,
                                             as[Len(as)])),
              moves |-> list_add_tail(P.moves, Len(P.mem) + 1)]

\* a move, a short move, two long moves and three more moves were added
\* to a new queue
ReplanInit ==
    /\ accel_order \in {2, 4}
    /\ \E first \in {LongMove(accel_order), ShortMove(accel_order)},
          rest \in [1..3 -> {LongMove(accel_order), ShortMove(accel_order)}] :
          LET P == AddedQueue(<<first, ShortMove(accel_order),
                                LongMove(accel_order), LongMove(accel_order),
                                rest[1], rest[2], rest[3]>>)
          IN  mem = P.mem /\ moves = P.moves
    /\ prev_end_v2 = Zero
    /\ prev_move_end_v = V2(Zero)
    /\ smoothed_pass_limit = 0
    /\ accel_combiner = ZeroAC
    /\ crashed = FALSE
    /\ op = [name |-> "add"]
    /\ ret = Code(0)
    /\ accel_decel = ZeroDesc
    /\ tq = trapq_alloc("klippy/chelper/trapq.c")
    /\ tq_op = [name |-> "alloc"]
    /\ is = input_shaper_alloc("unnamed/part_009")
    /\ is_op = [name |-> "alloc"]

ReplanNext ==
    \/ \E lazy \in BOOLEAN : MoveqPlan(lazy)
    \/ MoveqGetmove

ReplanSpec == ReplanInit /\ [][ReplanNext]_vars

\* --------------------------------- a caller that reads what a plan flushed
\* The caller keeps the count a moveq_plan returned and calls moveq_getmove
\* that many times: op.pending is the number of flushed moves it has still
\* to read, op.read the number it has read, op.final whether its last plan
\* was the moveq_plan(lazy = 0) that follows the lazy plans.
Caller(name, pending, read, final, got) ==
    [name |-> name, pending |-> pending, read |-> read, final |-> final,
     got |-> got]

DrainInit ==
    /\ accel_order \in {2, 4}
    /\ \/ mem = <<>> /\ moves = <<>>
       \/ \E first \in {LongMove(accel_order), ShortMove(accel_order)},
             rest \in [1..3 -> {LongMove(accel_order), ShortMove(accel_order)}] :
             LET P == AddedQueue(<<first, ShortMove(accel_order),
                                   LongMove(accel_order), LongMove(accel_order),
                                   rest[1], rest[2], rest[3]>>)
             IN  mem = P.mem /\ moves = P.moves
    /\ prev_end_v2 = Zero
    /\ prev_move_end_v = V2(Zero)
    /\ smoothed_pass_limit = 0
    /\ accel_combiner = ZeroAC
    /\ crashed = FALSE
    /\ op = Caller("add", 0, 0, FALSE, TRUE)
    /\ ret = Code(0)
    /\ accel_decel = ZeroDesc
    /\ tq = trapq_alloc("klippy/chelper/trapq.c")
    /\ tq_op = [name |-> "alloc"]
    /\ is = input_shaper_alloc("unnamed/part_009")
    /\ is_op = [name |-> "alloc"]

DrainAdd(a) ==
    /\ ~crashed /\ ~op.final /\ op.pending = 0
    /\ a.accel_order = accel_order
    /\ Len(mem) < MaxAdds
    /\ Len(moves) < MaxQueue
    /\ mem' = Append(mem, new_qmove(Len(mem) + 1, a))
    /\ moves' = list_add_tail(moves, Len(mem) + 1)
    /\ op' = [op EXCEPT !.name = "add"]
    /\ ret' = Code(0)
    /\ accel_decel' = ZeroDesc
    /\ UNCHANGED <<prev_end_v2, prev_move_end_v, smoothed_pass_limit,
                   accel_combiner, crashed, accel_order, tq, tq_op, is, is_op>>

\* moveq_plan(lazy = 1) when nothing is left to read, moveq_plan(lazy = 0)
\* once the moves that the lazy plans flushed have been read
DrainPlan(lazy) ==
    /\ ~crashed /\ ~op.final /\ op.pending = 0
    /\ ~lazy => op.read >= 1
    /\ \E r \in {moveq_plan(World, lazy, smoothed_pass_limit)} :
           \/ /\ r.W.segv \/ r.W.hang \/ r.W.uaf
              /\ crashed' = TRUE
              /\ op' = Caller("plan", 0, op.read, ~lazy, FALSE)
              /\ UNCHANGED <<mem, moves, prev_end_v2, smoothed_pass_limit,
                             accel_combiner, ret, accel_decel>>
           \/ /\ ~r.W.segv /\ ~r.W.hang
              /\ mem' = r.W.mem
              /\ moves' = r.W.q
              /\ prev_end_v2' = r.W.prev_end_v2
              /\ smoothed_pass_limit' = r.smoothed_pass_limit
              /\ accel_combiner' = r.W.ac
              /\ ret' = Code(r.ret)
              /\ accel_decel' = ZeroDesc
              /\ op' = Caller("plan", IF r.ret > 0 THEN r.ret ELSE 0, op.read,
                              ~lazy, r.ret = Len(moves))
              /\ UNCHANGED crashed
    /\ UNCHANGED <<prev_move_end_v, accel_order, tq, tq_op, is, is_op>>

DrainGetmove ==
    /\ ~crashed /\ op.pending > 0
    /\ \E r \in {moveq_getmove(mem, moves, prev_move_end_v)} :
           /\ accel_decel' = r.accel_decel
           /\ ret' = IF r.ok THEN Secs(r.ret) ELSE Code(r.ret)
           /\ prev_move_end_v' = r.end_v
           /\ moves' = IF r.ok THEN Tail(moves) ELSE moves
           /\ mem' = IF r.ok THEN [mem EXCEPT ![moves[1]] = Freed(moves[1])]
                     ELSE mem
           /\ op' = Caller("getmove", IF r.ok THEN op.pending - 1 ELSE 0,
                           op.read + 1, op.final, r.ok)
    /\ UNCHANGED <<prev_end_v2, smoothed_pass_limit, accel_combiner, crashed,
                   accel_order, tq, tq_op, is, is_op>>

DrainNext ==
    \/ \E a \in MoveTypes : DrainAdd(a)
    \/ \E lazy \in BOOLEAN : DrainPlan(lazy)
    \/ DrainGetmove

DrainSpec == DrainInit /\ [][DrainNext]_vars

\* ------------------------------------- the calls of process_next_accel
\* A pass of the planner resets the junctions to its start velocity and
\* hands the moves of the queue to process_next_accel one after the other,
\* each with the cap of the junction the ramp starts from.  op records the
\* call: the move, its cap, the candidates linked before it, the start
\* velocity the new candidate was given and the candidate that was chosen.
MaxComb == 3

CombMove(o, accel, d, velocity, accel_comp) ==
    [move_d |-> d, junction_max_v2 |-> Q(4), velocity |-> velocity,
     accel_order |-> o, accel |-> accel, smoothed_accel |-> accel,
     jerk |-> Q(1000 * 1000), min_jerk_limit_time |-> Zero,
     accel_comp |-> accel_comp]

\* ramps of order 4 with four accelerations, two of them 1/2% and 1%
\* above another, a very short ramp and a ramp with a low cruise velocity;
\* a ramp whose move has another accel_comp, a ramp of order 6 and a ramp
\* of order 2
CombMoves ==
    { CombMove(4, accel, Q(1), Q(4), 0) :
          accel \in {Q(1), Over(Q(201), Q(200)), Over(Q(101), Q(100)), Q(4)} }
    \cup { CombMove(4, Q(1), <<1, 256>>, Q(4), 0),
           CombMove(4, Q(1), Q(1), Q(1), 0), CombMove(4, Q(1), Q(1), Q(4), 1),
           CombMove(6, Q(1), Q(1), Q(4), 0), CombMove(2, Q(1), Q(1), Q(4), 0) }

CombJunctions == {Zero, Q(1), Q(16)}

\* The two combiners of accelgroup.c: the one whose junction points are
\* embedded in the qmoves (init_junction_point) and the one that
\* allocates them (create_junction_point).
CombVersions == {"init_junction_point", "create_junction_point"}

\* init_junction_point does not write prev_accel->next_accel as
\* create_junction_point does: the group of the candidate that was last in
\* the list of W0 keeps the next_accel it had
without_link(W0, W) ==
    IF W0.ac.junctions = <<>> THEN W
    ELSE LET prev_accel == W0.mem[Last(W0.ac.junctions)].jp.move_ag
         IN  [W EXCEPT !.mem = SetAG(W.mem, prev_accel,
                  [GetAG(W.mem, prev_accel) EXCEPT
                       !.next_accel = GetAG(W0.mem, prev_accel).next_accel])]

CombInit ==
    /\ mem = <<>>
    /\ moves = <<>>
    /\ prev_end_v2 \in {Zero, Q(1)}
    /\ prev_move_end_v = V2(Zero)
    /\ smoothed_pass_limit = 0
    /\ accel_combiner = [ZeroAC EXCEPT !.junct_start_v2 = prev_end_v2]
    /\ crashed = FALSE
    /\ op \in {[name |-> "reset_junctions", version |-> v] :
                  v \in CombVersions}
    /\ ret = Code(0)
    /\ accel_decel = ZeroDesc
    /\ accel_order = 4
    /\ tq = trapq_alloc("klippy/chelper/trapq.c")
    /\ tq_op = [name |-> "alloc"]
    /\ is = input_shaper_alloc("unnamed/part_009")
    /\ is_op = [name |-> "alloc"]

ProcessNextAccel(a, junction_max_v2) ==
    /\ Len(mem) < MaxComb
    /\ LET id == Len(mem) + 1
           m == [qmove_of(mem, moves, id, a) EXCEPT
                     !.accel_comp = a.accel_comp]
           W0 == [World EXCEPT
                     !.mem = Append(mem, [m EXCEPT
                                 !.accel_group = m.default_accel,
                                 !.decel_group = m.default_accel]),
                     !.q = list_add_tail(moves, id)]
           W1 == process_next_accel(W0, id, Ref(id, "accel_group"),
                                    junction_max_v2)
           W == IF op.version = "init_junction_point"
                THEN without_link(W0, W1) ELSE W1
       IN  /\ mem' = W.mem
           /\ moves' = W.q
           /\ accel_combiner' = W.ac
           /\ op' = [name |-> "process_next_accel", version |-> op.version,
                     move |-> id,
                     junction_max_v2 |-> junction_max_v2,
                     before |-> accel_combiner.junctions,
                     start_v2 |-> W.mem[id].accel_group.max_start_v2,
                     best_jp |-> W.ac.prev_best_jp]
    /\ UNCHANGED <<prev_end_v2, prev_move_end_v, smoothed_pass_limit, crashed,
                   ret, accel_decel, accel_order, tq, tq_op, is, is_op>>

CombNext ==
    \E a \in CombMoves, junction_max_v2 \in CombJunctions :
        ProcessNextAccel(a, junction_max_v2)

CombSpec == CombInit /\ [][CombNext]_vars

\* ---------------------------------------------------- the trapq's calls
MaxSegments == 3

\* the print_time of a call
PrintTimes == {Zero, Q(2), Q(3)}

\* The descriptors handed to trapq_append: a ramp from 0 to 1 in 1 s, a
\* cruise of 1 s at 1, a ramp back to 0 in 1 s; p tells which of the
\* three are there.
TrapDescs ==
    { [accel_order |-> accel_order,
       accel_t |-> p[1], accel_offset_t |-> Zero, total_accel_t |-> p[1],
       cruise_t |-> p[2],
       decel_t |-> p[3], decel_offset_t |-> Zero, total_decel_t |-> p[3],
       start_accel_v |-> IF p[1] = Zero THEN Q(1) ELSE Zero,
       cruise_v |-> Q(1),
       effective_accel |-> Q(1), effective_decel |-> Q(1),
       accel_comp |-> Zero] :
        p \in { <<Q(1), Q(1), Q(1)>>, <<Q(1), Zero, Q(1)>>,
                <<Zero, Q(1), Zero>>, <<Zero, Zero, Zero>> } }

\* the moves handed to trapq_add_move by a caller other than trapq_append
AddedMoves ==
    { append_move(t, Q(1), Q(1), move_t,
                  scurve_fill(2, move_t, Zero, move_t, Q(1), Zero, Zero)) :
        t \in {Zero, Q(2)}, move_t \in {<<3, 2>>} }

TrapqInit ==
    /\ mem = <<>>
    /\ moves = <<>>
    /\ prev_end_v2 = Zero
    /\ prev_move_end_v = V2(Zero)
    /\ smoothed_pass_limit = 0
    /\ accel_combiner = ZeroAC
    /\ crashed = FALSE
    /\ op = [name |-> "alloc"]
    /\ ret = Code(0)
    /\ accel_decel = ZeroDesc
    /\ accel_order \in {2, 4}
    /\ tq \in {trapq_alloc(v) : v \in TrapqVersions}
    /\ tq_op = [name |-> "alloc"]
    /\ is = input_shaper_alloc("unnamed/part_009")
    /\ is_op = [name |-> "alloc"]

TrapqAppend(print_time, start_pos, axes_r, d) ==
    /\ Len(Segments(trapq_append(tq, print_time, start_pos, axes_r, d)))
          <= MaxSegments
    /\ tq' = trapq_append(tq, print_time, start_pos, axes_r, d)
    /\ tq_op' = [name |-> "append", print_time |-> print_time,
                 start_pos |-> start_pos, axes_r |-> axes_r,
                 accel_decel |-> d]
    /\ UNCHANGED <<moveq_vars, shaper_vars>>

TrapqAddMove(m) ==
    /\ Len(Segments(trapq_add_move(tq, m))) <= MaxSegments
    /\ tq' = trapq_add_move(tq, m)
    /\ tq_op' = [name |-> "add_move", m |-> m]
    /\ UNCHANGED <<moveq_vars, shaper_vars>>

TrapqFreeMoves(print_time) ==
    /\ tq' = trapq_free_moves(tq, print_time)
    /\ tq_op' = [name |-> "free_moves", print_time |-> print_time,
                 freed |-> Len(tq.moves) - Len(tq'.moves)]
    /\ UNCHANGED <<moveq_vars, shaper_vars>>

TrapqCheckSentinels ==
    /\ tq' = trapq_check_sentinels(tq)
    /\ tq_op' = [name |-> "check_sentinels"]
    /\ UNCHANGED <<moveq_vars, shaper_vars>>

TrapqNext ==
    \/ \E t \in PrintTimes, d \in TrapDescs : TrapqAppend(t, Q(1), Q(1), d)
    \/ \E m \in AddedMoves : TrapqAddMove(m)
    \/ \E t \in {Q(1), Q(3)} : TrapqFreeMoves(t)
    \/ TrapqCheckSentinels

TrapqSpec == TrapqInit /\ [][TrapqNext]_vars

\* --------------------------------------- trapq_find_move on a queue that
\* a caller of trapq.c fills in time order
\* the times asked for, relative to the start of the hint
FindTimes == {Q(-3), <<-1, 2>>, <<1, 2>>, Q(2), Q(5)}

\* the time between the end of the queue and the next trapq_append
AppendGaps == {Zero, Q(2)}

FindInit ==
    /\ mem = <<>>
    /\ moves = <<>>
    /\ prev_end_v2 = Zero
    /\ prev_move_end_v = V2(Zero)
    /\ smoothed_pass_limit = 0
    /\ accel_combiner = ZeroAC
    /\ crashed = FALSE
    /\ op = [name |-> "alloc"]
    /\ ret = Code(0)
    /\ accel_decel = ZeroDesc
    /\ accel_order \in {2, 4}
    /\ tq = trapq_alloc("klippy/chelper/trapq.c")
    /\ tq_op = [name |-> "alloc"]
    /\ is = input_shaper_alloc("unnamed/part_009")
    /\ is_op = [name |-> "alloc"]

\* the read of what lies before the head sentinel is undefined: the call
\* dies, or it goes on with what it has read
TrapqFindMove(i, move_time) ==
    /\ \E r \in {trapq_find_move(tq.moves, i, move_time)} :
       \E outcome \in IF r.past THEN {"segv", "wild"} ELSE {"returned"} :
           tq_op' = [name |-> "find_move", hint |-> i,
                     move_time |-> move_time, past |-> r.past,
                     outcome |-> outcome, m |-> r.m, time |-> r.time]
    /\ UNCHANGED tq
    /\ UNCHANGED <<moveq_vars, shaper_vars>>

FindAlive == tq_op.name = "find_move" => ~tq_op.past

FindNext ==
    \/ FindAlive /\ \E g \in AppendGaps, d \in TrapDescs :
                        TrapqAppend(Plus(LastEnd(tq), g), Q(1), Q(1), d)
    \/ FindAlive /\ \E t \in {Q(1), Q(3)} : TrapqFreeMoves(t)
    \/ FindAlive /\ TrapqCheckSentinels
    \/ FindAlive /\ \E i \in 2..(Len(tq.moves) - 1), t \in FindTimes :
                        TrapqFindMove(i, t)

FindSpec == FindInit /\ [][FindNext]_vars

\* ------------------------------------- trapq_add_move by a caller that
\* keeps time order: each move starts at the end of the move added before
\* it, or a gap later
MaxClock == 9

\* the time between the end of the last move added and the next move
NullGaps == {Zero, <<1, 2>>, Q(2)}

NullInit ==
    /\ mem = <<>>
    /\ moves = <<>>
    /\ prev_end_v2 = Zero
    /\ prev_move_end_v = V2(Zero)
    /\ smoothed_pass_limit = 0
    /\ accel_combiner = ZeroAC
    /\ crashed = FALSE
    /\ op = [name |-> "alloc"]
    /\ ret = Code(0)
    /\ accel_decel = ZeroDesc
    /\ accel_order = 2
    /\ tq \in {trapq_alloc(v) : v \in TrapqVersions}
    /\ tq_op = [name |-> "alloc", clock |-> Zero, had_null |-> FALSE]
    /\ is = input_shaper_alloc("unnamed/part_009")
    /\ is_op = [name |-> "alloc"]

\* trapq_add_move of a move of move_t that starts gap after the last one
\* added; null is the null move the call has queued before it, if any, and
\* first tells that no null move was queued since trapq_alloc
NullAddMove(gap, move_t) ==
    LET m == append_move(Plus(tq_op.clock, gap), Q(1), Q(1), move_t,
                         scurve_fill(2, move_t, Zero, move_t, Q(1), Zero, Zero))
        t == trapq_add_move(tq, m)
        n == Len(t.moves)
        null == IF n = Len(tq.moves) + 2 THEN <<t.moves[n - 2]>> ELSE <<>>
    IN  /\ Le(Plus(m.print_time, m.move_t), Q(MaxClock))
        /\ Len(Segments(t)) <= MaxSegments
        /\ tq' = t
        /\ tq_op' = [name |-> "add_move", m |-> m,
                     clock |-> Plus(m.print_time, m.move_t),
                     prev_end |-> LastEnd(tq),
                     emptied |-> Len(tq.moves) = 2,
                     null |-> null,
                     first |-> ~tq_op.had_null,
                     had_null |-> tq_op.had_null \/ null # <<>>]
        /\ UNCHANGED <<moveq_vars, shaper_vars>>

NullFreeMoves(print_time) ==
    /\ tq' = trapq_free_moves(tq, print_time)
    /\ tq_op' = [name |-> "free_moves", print_time |-> print_time,
                 clock |-> tq_op.clock, had_null |-> tq_op.had_null]
    /\ UNCHANGED <<moveq_vars, shaper_vars>>

NullNext ==
    \/ \E gap \in NullGaps, move_t \in {<<1, 2>>, <<3, 2>>} :
           NullAddMove(gap, move_t)
    \/ \E t \in {Q(3), Q(MaxClock)} : NullFreeMoves(t)

NullSpec == NullInit /\ [][NullNext]_vars

\* ============================================================ properties
\* the last call was a moveq_getmove that returned a move
Emitted == op.name = "getmove" /\ ret.k = "time"

\* C1: velocity continuity.  Every move a successful moveq_getmove returns
\* starts at the velocity the previously returned move ended at (equal
\* velocities are within 1e-4 of each other), the first move after
\* allocation or after a moveq_reset starts at velocity 0, and no other
\* call changes the velocity the next move is compared against.
C1_VelocityContinuity ==
    /\ prev_move_end_v = V2(Zero)
    /\ [][ /\ Emitted' => /\ DescStartV(accel_decel') = prev_move_end_v
                          /\ prev_move_end_v' = DescEndV(accel_decel')
           /\ (op'.name = "reset" /\ ~crashed') => prev_move_end_v' = V2(Zero)
           /\ (~Emitted' /\ op'.name # "reset")
                  => prev_move_end_v' = prev_move_end_v ]_vars

\* a move was returned that starts at a non-zero velocity
C1_Witness ==
    /\ Emitted
    /\ DescStartV(accel_decel) # V2(Zero)
    /\ prev_move_end_v = DescEndV(accel_decel)

C3_FlushedPrefix ==
    [][ (op'.name = "plan" /\ ~crashed') =>
          /\ moves = <<>> => ret' = Code(0)
          /\ ret' # Code(ERROR_RET) =>
                /\ ret'.k = "int" /\ ret'.v \in 0..Len(moves)
                /\ moves' = moves
                /\ op'.flushed = SubSeq(moves, 1, ret'.v) ]_vars

\* a lazy plan flushed some, but not all, of the queued moves
C3_Witness ==
    /\ op.name = "plan" /\ op.lazy /\ ~crashed
    /\ ret.k = "int" /\ ret.v >= 1 /\ ret.v < Len(moves)
    /\ op.flushed = SubSeq(moves, 1, ret.v)

\* C4: a moveq_getmove that returns a move removes exactly the head of the
\* queue and frees it, keeps the other moves in their order, fills the
\* descriptor from that move, sets prev_move_end_v to the end velocity of
\* the descriptor and returns accel_t + cruise_t + decel_t of it.
C4_GetmovePopsHead ==
    [][ Emitted' =>
          /\ moves # <<>> /\ moves' = Tail(moves)
          /\ mem' = [mem EXCEPT ![moves[1]] = Freed(moves[1])]
          /\ accel_decel'.cruise_v = mem[moves[1]].cruise_v
          /\ accel_decel'.accel_t = mem[moves[1]].accel_group.accel_t
          /\ accel_decel'.decel_t = mem[moves[1]].decel_group.accel_t
          /\ prev_move_end_v' = DescEndV(accel_decel')
          /\ ret'.t = <<accel_decel'.accel_t, accel_decel'.cruise_t,
                        accel_decel'.decel_t>> ]_vars

\* a move with a cruise phase was returned while other moves stay queued
C4_Witness ==
    /\ Emitted /\ moves # <<>>
    /\ CruiseSign(accel_decel.cruise_t) = "pos"
    /\ prev_move_end_v # V2(Zero)

\* C5: in every queued move, flushed or not, the distance of the
\* acceleration ramp plus the distance of the deceleration ramp is at most
\* move_d, so the cruise distance move_d - accel_d - decel_d is not
\* negative and moveq_getmove does not find the move impossible.
C5_DistanceClosure ==
    \A i \in 1..Len(moves) :
        LET m == mem[moves[i]]
        IN  /\ Le(Plus(m.accel_group.accel_d, m.decel_group.accel_d), m.move_d)
            /\ CruiseSign(fill_accel_decel(m).cruise_t) # "neg"

\* a plan flushed a move that accelerates and decelerates over its whole
\* length
C5_Witness ==
    /\ op.name = "plan" /\ ~crashed /\ ret.k = "int" /\ ret.v >= 1
    /\ \E i \in 1..ret.v :
           LET m == mem[moves[i]]
           IN  /\ Gt(m.accel_group.accel_d, Zero)
               /\ Gt(m.decel_group.accel_d, Zero)
               /\ Plus(m.accel_group.accel_d, m.decel_group.accel_d) = m.move_d

\* The velocity of an order 4 ramp that starts from rest, at the ramp
\* position x: with u the fraction of the ramp time, the position is
\* D (2 u^3 - u^4) and the velocity is sqrt(T.c) (3 u^2 - 2 u^3).  Both
\* grow with u, so the velocity at the last grid point whose position is
\* at most x is a lower bound of the velocity at x.
SGrid == 16
Cube(t) == Times(t, Times(t, t))
bezier4_eval(k) ==
    Minus(Twice(Cube(<<k, SGrid>>)), Times(<<k, SGrid>>, Cube(<<k, SGrid>>)))
bezier4_velocity(k) ==
    Minus(Times(Q(3), Times(<<k, SGrid>>, <<k, SGrid>>)),
          Twice(Cube(<<k, SGrid>>)))
CurveV2Low(T, x) ==
    LET u == Over(x, RampDist(T))
        k == CHOOSE j \in 0..SGrid :
                 /\ Le(bezier4_eval(j), u)
                 /\ j = SGrid \/ ~Le(bezier4_eval(j + 1), u)
    IN  Times(T.c, Times(bezier4_velocity(k), bezier4_velocity(k)))

\* the square of the velocity v is certainly above cap
ExceedsV2(v, cap) ==
    IF v.k = "v2" THEN Gt(v.v2, cap)
    ELSE IF v.k = "curve" /\ v.T.v0 = Zero THEN Gt(CurveV2Low(v.T, v.x), cap)
    ELSE FALSE

\* C6: cap compliance.  Every returned move has cruise_v^2 at most the
\* max_cruise_v2 and start_v^2 at most the junction_max_v2 the move was
\* added with.
C6_CapCompliance ==
    [][ Emitted' =>
          /\ ~Gt(accel_decel'.cruise_v, mem[moves[1]].max_cruise_v2_arg)
          /\ ~ExceedsV2(DescStartV(accel_decel'),
                        mem[moves[1]].junction_max_v2_arg) ]_vars

\* the descriptors the following moveq_getmove calls return for the moves
\* of q, and whether all of the calls succeed
RECURSIVE Readout(_, _, _)
Readout(m, q, v) ==
    IF q = <<>> THEN [out |-> <<>>, ok |-> TRUE]
    ELSE LET r == moveq_getmove(m, q, v)
         IN  IF r.ok
             THEN LET rest == Readout(m, Tail(q), r.end_v)
                  IN  [out |-> <<r.accel_decel>> \o rest.out, ok |-> rest.ok]
             ELSE [out |-> <<>>, ok |-> FALSE]

\* the last call was a moveq_plan(lazy = 0) that returned a flush count
PlannedAll ==
    op.name = "plan" /\ ~op.lazy /\ ~crashed /\ ret.k = "int" /\ ret.v >= 0

\* C7: moveq_plan(lazy = 0) is idempotent.  When a non-lazy plan whose
\* moves can all be read out is followed at once by a second non-lazy
\* plan, the second returns the same count and the following
\* moveq_getmove calls return the same descriptors as after the first.
C7_IdempotentReplanning ==
    [][ (/\ PlannedAll /\ PlannedAll'
         /\ Readout(mem, SubSeq(moves, 1, ret.v), prev_move_end_v).ok) =>
          /\ ret' = ret
          /\ Readout(mem', SubSeq(moves', 1, ret'.v), prev_move_end_v')
               = Readout(mem, SubSeq(moves, 1, ret.v), prev_move_end_v) ]_vars

\* C9: after moveq_reset, whatever the state before it, the call has
\* completed with the queue and the candidate list of the combiner empty
\* and prev_end_v2 and prev_move_end_v zero.
C9_ResetClears ==
    op.name = "reset" =>
        /\ ~crashed
        /\ moves = <<>> /\ accel_combiner.junctions = <<>>
        /\ prev_end_v2 = Zero /\ prev_move_end_v = V2(Zero)

\* C10: moveq_add returns 0 and appends exactly one new move at the tail
\* of the queue; the moves already queued keep their order, caps and
\* planned timings, and prev_end_v2, prev_move_end_v, the combiner and the
\* smoothed pass limit keep their values.
C10_AddAppendsOnly ==
    [][ op'.name = "add" =>
          /\ ret' = Code(0)
          /\ Len(moves') = Len(moves) + 1
          /\ SubSeq(moves', 1, Len(moves)) = moves
          /\ Last(moves') \notin DOMAIN mem
          /\ mem'[Last(moves')].live
          /\ \A id \in DOMAIN mem : mem'[id] = mem[id]
          /\ UNCHANGED <<prev_end_v2, prev_move_end_v, accel_combiner,
                         smoothed_pass_limit>> ]_vars

\* a move was added behind moves that are planned and flushed but not yet
\* read, after moveq_getmove had returned a move that ends at a non-zero
\* velocity
C10_Witness ==
    /\ op.name = "add" /\ Len(moves) >= 3
    /\ mem[moves[1]].cruise_v # Zero
    /\ mem[Last(moves)].cruise_v = Zero
    /\ prev_move_end_v # V2(Zero)

CruiseBelowEpsilon(m) == CruiseSign(fill_accel_decel(m).cruise_t) = "neg"

\* ... is negative, and not below -EPSILON
CruiseInBand(m) ==
    /\ Lt(fill_accel_decel(m).cruise_t.d, Zero)
    /\ CruiseSign(fill_accel_decel(m).cruise_t) = "zero"

C12_WitnessRefused ==
    /\ op.name = "getmove" /\ ret = Code(-1) /\ moves # <<>>
    /\ CruiseBelowEpsilon(mem[moves[1]])

\* the locals of backward_smoothed_pass when its loop is left
SmoothedEnd(lazy) ==
    smoothed_loop(smoothed_start(World, lazy), moves, Len(moves), lazy,
                  smoothed_pass_limit)

\* C13: when the backward smoothed pass ends with a deferred move still on
\* its delayed list, or (lazy) finds a peak trapezoid open at the end of
\* the queue, moveq_plan returns -1 and reports no move as flushed: no
\* junction velocity is committed and the other passes do not run.
C13_SmoothedPassError ==
    [][ (op'.name = "plan" /\ moves # <<>> /\ ~crashed'
           /\ (SmoothedEnd(op'.lazy).delayed # <<>>
                  \/ SmoothedEnd(op'.lazy).ret # 0)) =>
          /\ ret' = Code(-1)
          /\ op'.flushed = <<>>
          /\ prev_end_v2' = prev_end_v2 ]_vars

\* a plan returned -1 and a queued move was left on the delayed list, which
\* is off the queue
C13_Witness ==
    /\ op.name = "plan" /\ ret = Code(-1)
    /\ \E id \in DOMAIN mem : mem[id].live /\ id \notin Range(moves)

\* moveq_plan(lazy) reaches forward_pass, and the head move's
\* decel_group.max_end_v2 is then below the committed mq->prev_end_v2
FallbackTaken(lazy) ==
    /\ moves # <<>>
    /\ Let(backward_smoothed_pass(World, lazy, smoothed_pass_limit), LAMBDA b :
           /\ b.ret = 0
           /\ ~(lazy /\ b.flush_limit = 0)
           /\ Let(compute_safe_flush_limit(backward_pass(b.W, b.flush_limit),
                                           lazy, b.flush_limit), LAMBDA s :
                  /\ s.W.q[1] # s.flush_limit
                  /\ Lt(s.W.mem[s.W.q[1]].decel_group.max_end_v2,
                        s.W.prev_end_v2)))

\* C14: when the forward pass finds the head move's decel_group.max_end_v2
\* below the committed prev_end_v2, moveq_plan neither fails nor faults,
\* and every move it reports as flushed can be read out: moveq_getmove
\* returns neither the impossible-move nor the velocity-jump error.
C14_FallbackStillValid ==
    [][ (op'.name = "plan" /\ FallbackTaken(op'.lazy)) =>
          /\ ~crashed'
          /\ ret'.v >= 0
          /\ Readout(mem', SubSeq(moves', 1, ret'.v), prev_move_end_v').ok
      ]_vars

\* the segment ends no later than the next one starts
Ordered(a, b) == Le(Plus(a.print_time, a.move_t), b.print_time)

\* C15: after any sequence of trapq_append, trapq_add_move and
\* trapq_free_moves, every two adjacent segments between the sentinels are
\* in time order: prev.print_time + prev.move_t <= next.print_time.
C15_TimeOrdered ==
    \A i \in 1..(Len(Segments(tq)) - 1) :
        Ordered(Segments(tq)[i], Segments(tq)[i + 1])

\* the moves of the list but the tail sentinel
BeforeTail(q) == SubSeq(q.moves, 1, Len(q.moves) - 1)

\* n is a null move before m that starts at time from
FillsGap(n, m, from) ==
    /\ n.axes_r = Zero
    /\ n.start_pos = m.start_pos
    /\ Plus(n.print_time, n.move_t) = m.print_time
    /\ n.print_time = from

\* C16: when trapq_add_move(m) finds a queue whose last segment ends before
\* m.print_time, it puts exactly one null move (zero axes_r, start_pos of m)
\* directly before m, which starts at the end of that segment and ends at
\* m.print_time; when there is no gap it puts m alone.
C16_NullMoveFillsGap ==
    [][(tq_op'.name = "add_move" /\ Len(Segments(tq)) > 0) =>
          LET m == tq_op'.m
              old == BeforeTail(tq)
              new == BeforeTail(tq')
          IN  IF Lt(LastEnd(tq), m.print_time)
              THEN /\ Len(new) = Len(old) + 2
                   /\ SubSeq(new, 1, Len(old)) = old
                   /\ new[Len(new)] = m
                   /\ FillsGap(new[Len(new) - 1], m, LastEnd(tq))
              ELSE new = old \o <<m>>]_vars

\* the segments of q that end after time t, in the order of the queue
EndingAfter(q, t) ==
    LET After(m) == Gt(Plus(m.print_time, m.move_t), t)
    IN  SelectSeq(Segments(q), After)

RECURSIVE DropEnded(_, _)
DropEnded(segs, t) ==
    IF segs = <<>> \/ Gt(Plus(segs[1].print_time, segs[1].move_t), t)
    THEN segs
    ELSE DropEnded(Tail(segs), t)

\* the sentinels of q are those of p, whatever their times and positions
SameSentinels(p, q) ==
    /\ Len(q.moves) >= 2
    /\ [head_sentinel(q) EXCEPT !.move_t = Zero, !.start_pos = Zero]
          = [head_sentinel(p) EXCEPT !.move_t = Zero, !.start_pos = Zero]
    /\ [tail_sentinel(q) EXCEPT !.print_time = Zero]
          = [tail_sentinel(p) EXCEPT !.print_time = Zero]

C18_HeadSentinelCurrent ==
    (tq_op.name = "free_moves" /\ Len(Segments(tq)) > 0) =>
        /\ head_sentinel(tq).move_t = Segments(tq)[1].print_time
        /\ head_sentinel(tq).start_pos = Segments(tq)[1].start_pos

\* the last segment before the tail sentinel
LastSegment(q) == q.moves[Len(q.moves) - 1]

\* C19: when trapq_check_sentinels has returned, the tail sentinel's
\* print_time is print_time + move_t of the last segment and its start_pos
\* is the position where that segment ends, or its print_time is NEVER_TIME
\* when there is no segment between the sentinels; when trapq_add_move has
\* returned, the tail sentinel's print_time is 0.
C19_TailSentinelCurrent ==
    /\ tq_op.name = "check_sentinels" =>
          IF Segments(tq) = <<>>
          THEN tail_sentinel(tq).print_time = NEVER_TIME
          ELSE /\ tail_sentinel(tq).print_time = LastEnd(tq)
               /\ tail_sentinel(tq).start_pos
                     = move_get_coord(LastSegment(tq), LastSegment(tq).move_t)
    /\ tq_op.name = "add_move" => tail_sentinel(tq).print_time = Zero

\* the phases of descriptor d that have a duration, in the order accel,
\* cruise, decel
PhasesOf(d) ==
    LET HasTime(p) == p # Zero
    IN  SelectSeq(<<d.accel_t, d.cruise_t, d.decel_t>>, HasTime)

\* the last n moves before the tail sentinel
LastMoves(q, n) == SubSeq(q.moves, Len(q.moves) - n, Len(q.moves) - 1)

\* the segments segs follow each other from the time and the position given
RECURSIVE Chained(_, _, _)
Chained(segs, print_time, start_pos) ==
    \/ segs = <<>>
    \/ /\ segs[1].print_time = print_time
       /\ segs[1].start_pos = start_pos
       /\ Chained(Tail(segs), Plus(print_time, segs[1].move_t),
                  move_get_coord(segs[1], segs[1].move_t))

\* C20: trapq_append adds one segment for each of accel_t, cruise_t and
\* decel_t that is not zero, in the order accel, cruise, decel (behind the
\* null move of a gap, if there is one); the first segment starts at the
\* print_time and start_pos of the call and each following one at the time
\* and position where the one before it ended.
C20_AppendEmitsPhases ==
    [][tq_op'.name = "append" =>
          LET d == tq_op'.accel_decel
              n == Len(PhasesOf(d))
              old == BeforeTail(tq)
              new == BeforeTail(tq')
              added == LastMoves(tq', n)
          IN  /\ n <= 3
              /\ \/ new = old \o added
                 \/ /\ n > 0
                    /\ Len(new) = Len(old) + n + 1
                    /\ new = old \o <<new[Len(old) + 1]>> \o added
                    /\ new[Len(old) + 1].axes_r = Zero
              /\ \A i \in 1..n :
                    /\ added[i].move_t = PhasesOf(d)[i]
                    /\ added[i].axes_r = tq_op'.axes_r
              /\ (d.accel_t # Zero) =>
                    added[1].s = scurve_fill(d.accel_order, d.accel_t,
                        d.accel_offset_t, d.total_accel_t, d.start_accel_v,
                        d.effective_accel, d.accel_comp)
              /\ (d.decel_t # Zero) =>
                    added[n].s = scurve_fill(d.accel_order, d.decel_t,
                        d.decel_offset_t, d.total_decel_t, d.cruise_v,
                        Times(Q(-1), d.effective_decel), d.accel_comp)
              /\ Chained(added, tq_op'.print_time, tq_op'.start_pos)]_vars

\* trapq_append has added an accel, a cruise and a decel segment
C20_Witness ==
    /\ tq_op.name = "append"
    /\ Len(PhasesOf(tq_op.accel_decel)) = 3
    /\ Len(Segments(tq)) >= 3
    /\ Chained(LastMoves(tq, 3), tq_op.print_time, tq_op.start_pos)
    /\ Lt(tq_op.start_pos, LastMoves(tq, 3)[3].start_pos)

\* C21: when trapq_find_move has returned for a hint segment and a time
\* relative to it, it has not walked past a sentinel, and it has returned a
\* move of the queue and a time tau within it: 0 <= tau <= move_t.
C21_FindMoveStaysInQueue ==
    tq_op.name = "find_move" =>
        /\ ~tq_op.past
        /\ tq_op.outcome = "returned"
        /\ tq_op.m \in 1..Len(tq.moves)
        /\ Le(Zero, tq_op.time)
        /\ Le(tq_op.time, tq.moves[tq_op.m].move_t)

\* the call that has just returned was given an unknown shaper type, or a
\* hook with neither x nor y active
RefusedShaperCall(o) ==
    \/ o.name = "set_shaper_params" /\ o.p.shaper_type \notin 0..5
    \/ o.name = "set_sk" /\ o.orig_sk.active_flags \cap {"x", "y"} = {}

\* C22: input_shaper_set_shaper_params with an unknown shaper type, and
\* input_shaper_set_sk with a hook that has neither x nor y active, return
\* a code other than 0 and leave the filter (pulses, calc_position_cb,
\* active_flags, orig_sk, gen_steps_pre_active, gen_steps_post_active) as
\* it was.
C22_RefusedCallKeepsFilter ==
    [][RefusedShaperCall(is_op') =>
          /\ is_op'.ret # 0
          /\ ~is_op'.segv
          /\ is' = is]_vars

\* the pulses an init_shaper callback has filled in
FilledPulses ==
    IF is.version = "klippy/chelper/kin_extruder.c" THEN is.pulses
    ELSE is.x_pulses

C23_JerkLimit ==
    (op.name = "set_accel" /\ op.ramp.emitted /\ op.ag.accel_order \in {4, 6}) =>
        Le(Times(Q(36), op.ramp.effective_accel2),
           Times(Times(op.ag.max_jerk, op.ag.max_jerk), op.ramp.total_accel_t2))

\* C25: moveq_plan never adds, removes, duplicates or reorders queued
\* moves: whatever it returns (a count, 0 or -1), the queue holds the same
\* moves in the same order as before the call.
C25_PlanKeepsQueue ==
    [][(op'.name = "plan" /\ ~crashed') => moves' = moves]_vars

ExtTypes ==
    {a \in MoveTypes \cup {LongMove(accel_order), ShortMove(accel_order)} :
        a.accel_order = accel_order}

Extensions ==
    {<<a>> : a \in ExtTypes} \cup {<<a, b>> : a \in ExtTypes, b \in ExtTypes}

\* W after a moveq_add of each move of ext
RECURSIVE Extended(_, _)
Extended(W, ext) ==
    IF ext = <<>> THEN W
    ELSE Extended([W EXCEPT
                     !.mem = Append(W.mem, qmove_of(W.mem, W.q, Len(W.mem) + 1,
                                                    ext[1])),
                     !.q = list_add_tail(W.q, Len(W.mem) + 1)], Tail(ext))

\* the plan of the queue extended by ext flushes the first n queued moves
\* with the descriptors they have in mem2
SamePlan(ext, lazy, n, mem2) ==
    LET r == moveq_plan(Extended(World, ext), lazy, smoothed_pass_limit)
    IN  /\ ~r.W.segv /\ ~r.W.hang
        /\ \A i \in 1..n :
              /\ moves[i] \in Range(r.W.flushed)
              /\ fill_accel_decel(r.W.mem[moves[i]]) = fill_accel_decel(mem2[moves[i]])

\* a lazy plan flushed at least one move
LazyFlush(o, c) == o.name = "plan" /\ ~o.final /\ o.pending >= 1 /\ ~c

ResetFollowsFreed ==
    reset_combiner([World EXCEPT !.mem = [id \in DOMAIN mem |-> Freed(id)],
                                 !.q = <<>>]).uaf

\* moveq_plan touches a junction point of a move that moveq_getmove freed
PlanFollowsFreed(lazy) == moveq_plan(World, lazy, smoothed_pass_limit).W.uaf

\* C28: no planner call dereferences a move, or a junction point embedded
\* in a move, that was freed: neither the combiner reset inside
\* moveq_reset nor a moveq_plan after a moveq_getmove follows a reference
\* to a freed move.
C28_NoUseAfterFree ==
    [][ /\ op'.name = "reset" => ~ResetFollowsFreed
        /\ op'.name = "plan" => ~PlanFollowsFreed(op'.lazy) ]_vars

\* moveq_plan dereferences a null or stray pointer (a list walk that left
\* the queue included), or one of its pointer walks does not end
PlanFaults(lazy) ==
    LET W == moveq_plan(World, lazy, smoothed_pass_limit).W
    IN  W.segv \/ W.hang

\* C29: every moveq_plan call terminates and its list walks stay inside
\* the queue: the decel-chaining loop of the forward pass reaches
\* decel.start_accel.move or the flush limit, never the list root, and no
\* walk follows a null or stray pointer.
C29_PlanTerminates ==
    [][op'.name = "plan" => ~PlanFaults(op'.lazy)]_vars

\* C30: a moveq_getmove that returns -1 (empty queue, impossible move or
\* velocity jump) leaves the planner as it was: the queue holds the same
\* moves in the same order, no move is freed and prev_move_end_v keeps
\* its value.
C30_FailedGetmoveKeepsState ==
    [][ (op'.name = "getmove" /\ ret' = Code(ERROR_RET)) =>
          UNCHANGED <<mem, moves, prev_end_v2, prev_move_end_v,
                      smoothed_pass_limit, accel_combiner>> ]_vars

\* moveq_getmove refused a queued move for a velocity jump from a
\* non-zero velocity, and the move is still the head of the queue
C30_Witness ==
    /\ op.name = "getmove" /\ ret = Code(ERROR_RET)
    /\ moves # <<>> /\ mem[moves[1]].live
    /\ prev_move_end_v # V2(Zero)
    /\ ~CruiseBelowEpsilon(mem[moves[1]])
    /\ DescEndV(fill_accel_decel(mem[moves[1]])) # prev_move_end_v

\* no moveq_plan has planned the head move: its cruise_v is still the 0 of
\* moveq_add, so no plan has counted it as flushed
HeadUnplanned == moves # <<>> /\ mem[moves[1]].cruise_v = Zero

\* C31: moveq_getmove pops only a move that an earlier moveq_plan counted
\* as flushed: it does not pop a head move that no plan has planned.
C31_GetmovePopsOnlyFlushed ==
    [][(op'.name = "getmove" /\ HeadUnplanned) =>
          (moves' = moves /\ mem' = mem)]_vars

\* the new move may extend the candidates linked before the call
CanCombine(M, junctions, m) ==
    /\ junctions # <<>>
    /\ m.default_accel.accel_order # 2
    /\ M[Last(junctions)].default_accel.accel_order
           = m.default_accel.accel_order
    /\ M[Last(junctions)].accel_comp = m.accel_comp

\* C32: process_next_accel keeps candidates linked before the call only if
\* the list was non-empty, the new ramp has the accel_order of the previous
\* candidate, that order is not 2 and the two moves have the same
\* accel_comp; otherwise the list holds exactly the new candidate afterwards
\* and the combiner is anchored at the new candidate's start velocity.
C32_CombinabilityTest ==
    [][(op'.name = "process_next_accel"
            /\ ~CanCombine(mem, accel_combiner.junctions, mem'[op'.move]))
         => /\ accel_combiner'.junctions = <<op'.move>>
            /\ accel_combiner'.junct_start_v2 = op'.start_v2
            /\ mem'[op'.move].jp.accel.max_start_v2 = op'.start_v2
            /\ mem'[op'.move].accel_group.start_accel
                   = Ref(op'.move, "accel_group")]_vars

\* a second ramp of order 4 was not combined with the first one, whose
\* accel_comp differs
C32_Witness ==
    /\ op.name = "process_next_accel"
    /\ op.before # <<>>
    /\ mem[op.move].default_accel.accel_order = 4
    /\ mem[Last(op.before)].default_accel.accel_order = 4
    /\ mem[Last(op.before)].accel_comp # mem[op.move].accel_comp
    /\ accel_combiner.junctions = <<op.move>>

\* the candidates process_next_accel kept from before the call
Retained(junctions, move) ==
    SelectSeq(junctions, LAMBDA id : id # move)

\* C33: after process_next_accel the candidates retained from before the
\* call are a prefix of the old list, and each has a max_start_v2 below
\* min(new start_v2, junction_max_v2): every candidate of the old list at
\* or above that bound has been removed, not only those at its tail.
C33_DominatedDropped ==
    [][op'.name = "process_next_accel" =>
         LET kept == Retained(accel_combiner'.junctions, op'.move)
             bound == MIN(op'.start_v2, op'.junction_max_v2)
         IN  /\ Len(kept) <= Len(accel_combiner.junctions)
             /\ kept = SubSeq(accel_combiner.junctions, 1, Len(kept))
             /\ \A i \in 1..Len(kept) :
                    Lt(mem'[kept[i]].jp.accel.max_start_v2, bound)
             /\ \A i \in 1..Len(accel_combiner.junctions) :
                    Ge(mem[accel_combiner.junctions[i]].jp.accel.max_start_v2,
                       bound) => i > Len(kept)]_vars

\* of two candidates the call removed the later one and kept the earlier
C33_Witness ==
    /\ op.name = "process_next_accel"
    /\ Len(op.before) = 2
    /\ accel_combiner.junctions = <<op.before[1], op.move>>

\* C34: the candidate process_next_accel selects has a min_end_time that is
\* minimal up to epsilon among the candidates of the list, and no older
\* candidate has a min_end_time within epsilon of the selected one's.
C34_BestCandidate ==
    [][op'.name = "process_next_accel" =>
         LET L == accel_combiner'.junctions
             b == IndexOf(L, op'.best_jp)
             t(i) == mem'[L[i]].jp.min_end_time
         IN  /\ \A j \in 1..Len(L) : t(b) <= t(j) + TEPS
             /\ \A j \in 1..(b - 1) :
                    ~(t(j) <= t(b) + TEPS /\ t(b) <= t(j) + TEPS)]_vars

\* moveq_plan zeroes the junction point of a move while it is linked into
\* the candidate list; linking it again would put it into the list twice
PlanRelinks(lazy) == moveq_plan(World, lazy, smoothed_pass_limit).W.relinked

NoDuplicates(list) ==
    \A i, j \in 1..Len(list) : list[i] = list[j] => i = j

\* C35: in every pass of every moveq_plan a move's embedded junction point
\* is linked into the candidate list at most once, and no junction point is
\* zeroed by init_junction_point or maybe_add_new_fallback_decel_jp while
\* it is linked.
C35_LinkedOnce ==
    [][op'.name = "plan" =>
         (~PlanRelinks(op'.lazy) /\ NoDuplicates(accel_combiner'.junctions))]_vars

\* a plan flushed every move: the junction point of each was initialised
\* by the backward pass and, after the reset, again by the forward pass
C35_Witness ==
    /\ op.name = "plan"
    /\ ~crashed
    /\ ret = Code(Len(moves))
    /\ Len(moves) >= 2
    /\ \A i \in 1..Len(moves) :
           mem[moves[i]].jp.move_ag = Ref(moves[i], "accel_group")

\* C36: the accel group process_next_accel has filled has a max_end_v2 that
\* is at least its max_start_v2.
C36_EndAboveStart ==
    op.name = "process_next_accel" =>
        Ge(mem[op.move].accel_group.max_end_v2,
           mem[op.move].accel_group.max_start_v2)

\* following next_accel from the group a reaches the group g within n
\* steps, without a null link
RECURSIVE ChainReaches(_, _, _, _)
ChainReaches(M, a, g, n) ==
    IF a = NullRef \/ n = 0 THEN FALSE
    ELSE IF a = g THEN TRUE
    ELSE ChainReaches(M, GetAG(M, a).next_accel, g, n - 1)

\* C37: following next_accel from the start_accel of the group
\* process_next_accel has filled reaches that group after finitely many
\* steps and meets no null link, so the walk of set_accel ends.
C37_ChainReachesGroup ==
    op.name = "process_next_accel" =>
        ChainReaches(mem, mem[op.move].accel_group.start_accel,
                     Ref(op.move, "accel_group"), MaxComb)

\* C38 as stated: limit_accel(ag, a, j) makes max_accel and max_jerk the
\* minimum of the old value and the argument, leaves min_accel equal to
\* j * min_jerk_limit_time / 6 clamped to max_accel, and keeps
\* min_accel <= max_accel.
C38_AsStated ==
    [][op'.name = "limit_accel" =>
         /\ op'.ag.max_accel = MIN(op.ag.max_accel, op'.accel)
         /\ op'.ag.max_jerk = MIN(op.ag.max_jerk, op'.jerk)
         /\ op'.ag.min_accel =
                MIN(Over(Times(op'.jerk, op.ag.min_jerk_limit_time), Q(6)),
                    op'.ag.max_accel)
         /\ Le(op'.ag.min_accel, op'.ag.max_accel)]_vars

\* C38: limit_accel(ag, a, j) never raises max_accel, max_jerk or
\* min_accel: max_accel becomes the minimum of its old value and a (0 for a
\* negative a), max_jerk the minimum of its old value and j, and min_accel
\* the minimum of its old value, the lowered max_jerk *
\* min_jerk_limit_time / 6 and the lowered max_accel, so that
\* min_accel <= max_accel holds after any sequence of calls.
C38_LimitAccelLowers ==
    [][op'.name = "limit_accel" =>
         /\ op'.ag.max_accel = MIN(op.ag.max_accel, MAX(op'.accel, Zero))
         /\ op'.ag.max_jerk = MIN(op.ag.max_jerk, op'.jerk)
         /\ op'.ag.min_accel =
                MIN(MIN(op.ag.min_accel,
                        Over(Times(op'.ag.max_jerk,
                                   op.ag.min_jerk_limit_time), Q(6))),
                    op'.ag.max_accel)
         /\ Le(op'.ag.min_accel, op'.ag.max_accel)]_vars

\* a second limit_accel call with a jerk above the group's max_jerk left
\* min_accel below jerk * min_jerk_limit_time / 6 and below max_accel
C38_Witness ==
    /\ op.name = "limit_accel"
    /\ Gt(op.jerk, op.ag.max_jerk)
    /\ Gt(op.ag.min_accel, Zero)
    /\ Lt(op.ag.min_accel, op.ag.max_accel)
    /\ Lt(op.ag.min_accel,
          Over(Times(op.jerk, op.ag.min_jerk_limit_time), Q(6)))

\* the vtrap_clear calls of moveq_plan, those inside vtrap_flush included
PlanClears(lazy) == moveq_plan(World, lazy, smoothed_pass_limit).W.cleared

\* the call e put the moves the builder held directly before next_pos, in
\* the order in which they were taken, moved no other move, and left the
\* builder empty
PutBack(e) ==
    LET held == e.vt.trapezoid
        n == Len(held)
        i == IF e.next_pos = 0 THEN Len(e.q_after) + 1
             ELSE IndexOf(e.q_after, e.next_pos)
    IN  /\ e.vt_after = [trapezoid |-> <<>>, accel_head |-> 0, decel_head |-> 0]
        /\ i - n >= 1
        /\ SubSeq(e.q_after, i - n, i - 1) = held
        /\ SubSeq(e.q_after, 1, i - n - 1) \o SubSeq(e.q_after, i, Len(e.q_after))
               = e.q
        /\ NoDuplicates(e.q_after)

\* C39: every vtrap_flush and vtrap_clear of a plan puts the moves the
\* builder holds back into the queue directly before next_pos, in the
\* order in which they were taken from the queue, and leaves the builder
\* with no accel head, no decel head and an empty list.
C39_BuilderPutsBack ==
    [][(op'.name = "plan" /\ ~crashed') =>
          Let(PlanClears(op'.lazy), LAMBDA cleared :
              \A k \in 1..Len(cleared) : PutBack(cleared[k]))]_vars

\* a lazy plan flushed a trapezoid and cleared the builder before the moves
\* it did not flush
C39_Witness ==
    /\ op.name = "plan"
    /\ op.lazy
    /\ ~crashed
    /\ ret # Code(ERROR_RET)
    /\ ret # Code(0)
    /\ ret # Code(Len(moves))


\* the last call was a trapq_add_move that queued a null move
NullQueued == tq_op.name = "add_move" /\ tq_op.null # <<>>

\* C40: only the first null move queued into a trapq is shortened by the
\* MAX_NULL_MOVE cap, and it then lasts at most 1 s; every null move queued
\* after it, also one queued behind a segment that starts at print_time 0
\* or into a queue that trapq_free_moves has emptied, starts at the end of
\* the previous segment and ends at the print_time of the new segment.
C40_OnlyFirstNullCapped ==
    NullQueued =>
        LET null == tq_op.null[1]
            whole == null.print_time = tq_op.prev_end
        IN  /\ Plus(null.print_time, null.move_t) = tq_op.m.print_time
            /\ ~tq_op.first => whole
            /\ (tq_op.first /\ ~whole) => Le(null.move_t, MAX_NULL_MOVE)

\* a null move that is not the first was queued behind a queued segment and
\* spans the whole gap of more than 1 s
C40_Witness ==
    /\ NullQueued
    /\ ~tq_op.first
    /\ ~tq_op.emptied
    /\ tq_op.null[1].print_time = tq_op.prev_end
    /\ Gt(tq_op.null[1].move_t, MAX_NULL_MOVE)

\* the first null move was shortened to 1 s
C40_FirstCapped ==
    /\ NullQueued
    /\ tq_op.first
    /\ tq_op.null[1].print_time # tq_op.prev_end
    /\ tq_op.null[1].move_t = MAX_NULL_MOVE

============================================================================
